---- MODULE Spec2Model ----
(***************************************************************************)
(* Scoring engine of the ReviewRot API: the rot score (three variants:     *)
(* server.js, part_000, part_001), the review-health composite, the        *)
(* profile, photo and response scorers and the full-audit aggregator.      *)
(*                                                                         *)
(* JavaScript numbers are IEEE-754 binary64.  The scorers divide and       *)
(* multiply by non-dyadic constants (d/14, 0.4, 0.35, ...) and then call   *)
(* Math.round or Math.floor, so the result at an exact .5 tie depends on   *)
(* the rounding error of each operation.  The module therefore carries a   *)
(* small binary64 arithmetic (round-to-nearest-even after every            *)
(* operation) and the scorers are written with it, operation by operation, *)
(* as the source evaluates them.                                           *)
(***************************************************************************)
EXTENDS Integers, Sequences, FiniteSets, TLC

(***************************************************************************)
(* Natural numbers of arbitrary size: little-endian sequences of limbs in  *)
(* base 2^15, without most-significant zero limbs.  <<>> is zero.          *)
(***************************************************************************)
\* limb size of the exact naturals; significand size of binary64
LimbBits == 15
MantBits == 53

RECURSIVE Pow2(_)
Pow2(n) == IF n = 0 THEN 1 ELSE 2 * Pow2(n - 1)

Base == Pow2(LimbBits)

RECURSIVE SmallBitLen(_)
SmallBitLen(n) == IF n = 0 THEN 0 ELSE 1 + SmallBitLen(n \div 2)

RECURSIVE BTrim(_)
BTrim(a) ==
    IF a = <<>> THEN <<>>
    ELSE IF a[Len(a)] = 0 THEN BTrim(SubSeq(a, 1, Len(a) - 1)) ELSE a

RECURSIVE Zeros(_)
Zeros(n) == IF n = 0 THEN <<>> ELSE <<0>> \o Zeros(n - 1)

RECURSIVE BAddC(_, _, _)
BAddC(a, b, c) ==
    IF a = <<>> /\ b = <<>> THEN (IF c = 0 THEN <<>> ELSE <<c>>)
    ELSE LET x == IF a = <<>> THEN 0 ELSE Head(a)
             y == IF b = <<>> THEN 0 ELSE Head(b)
             t == x + y + c
         IN  <<t % Base>> \o BAddC(IF a = <<>> THEN <<>> ELSE Tail(a),
                                   IF b = <<>> THEN <<>> ELSE Tail(b),
                                   t \div Base)

BAdd(a, b) == BAddC(a, b, 0)

RECURSIVE BMulSmallC(_, _, _)
BMulSmallC(a, k, c) ==
    IF a = <<>> THEN (IF c = 0 THEN <<>> ELSE <<c>>)
    ELSE LET t == Head(a) * k + c
         IN  <<t % Base>> \o BMulSmallC(Tail(a), k, t \div Base)

BMulSmall(a, k) == BTrim(BMulSmallC(a, k, 0))

RECURSIVE BMul(_, _)
BMul(a, b) ==
    IF a = <<>> \/ b = <<>> THEN <<>>
    ELSE BTrim(BAdd(BMulSmall(a, Head(b)), <<0>> \o BMul(a, Tail(b))))

\* quotient and remainder of a by a divisor k with 0 < k < Base
RECURSIVE BDivSmall(_, _, _)
BDivSmall(a, k, r) ==
    IF a = <<>> THEN [q |-> <<>>, r |-> r]
    ELSE LET cur  == r * Base + a[Len(a)]
             rest == BDivSmall(SubSeq(a, 1, Len(a) - 1), k, cur % k)
         IN  [q |-> rest.q \o <<cur \div k>>, r |-> rest.r]

BitLen(a) == IF a = <<>> THEN 0
             ELSE LimbBits * (Len(a) - 1) + SmallBitLen(a[Len(a)])

BShl(a, s) == IF a = <<>> THEN <<>>
              ELSE Zeros(s \div LimbBits) \o BMulSmall(a, Pow2(s % LimbBits))

Min(a, b) == IF a < b THEN a ELSE b

\* floor(a / 2^s), and whether any of the s dropped bits was set: n whole
\* limbs are dropped, d is the division of the others by 2^(s mod 15)
BShrLimbs(a, n, d) ==
    [q  |-> BTrim(d.q),
     nz |-> d.r # 0 \/ \E i \in 1..Min(n, Len(a)) : a[i] # 0]

BShr(a, s) ==
    BShrLimbs(a, s \div LimbBits,
              BDivSmall(SubSeq(a, (s \div LimbBits) + 1, Len(a)),
                        Pow2(s % LimbBits), 0))

BOdd(a) == a # <<>> /\ a[1] % 2 = 1

RECURSIVE BLess(_, _)
BLess(a, b) ==
    IF Len(a) # Len(b) THEN Len(a) < Len(b)
    ELSE IF a = <<>> THEN FALSE
    ELSE IF a[Len(a)] # b[Len(b)] THEN a[Len(a)] < b[Len(b)]
    ELSE BLess(SubSeq(a, 1, Len(a) - 1), SubSeq(b, 1, Len(b) - 1))

RECURSIVE BToInt(_)
BToInt(a) == IF a = <<>> THEN 0 ELSE Head(a) + Base * BToInt(Tail(a))

BFromNat(n) == BTrim(<<n % Base, n \div Base>>)

(***************************************************************************)
(* binary64 values: neg, mantissa m with 2^52 <= m < 2^53 (or zero) and    *)
(* exponent e; the value is (-1)^neg * m * 2^e.  Every value the scorers   *)
(* produce is far inside the normal range, so subnormals, infinities and   *)
(* NaN are not represented; -0 is represented as 0, which it equals.       *)
(***************************************************************************)
FZero == [neg |-> FALSE, m |-> <<>>, e |-> 0]

\* q * 2^e with q of 53 or, after a carry out of the rounding, 54 bits
Renormalize(neg, q, e) ==
    IF BitLen(q) > MantBits
    THEN [neg |-> neg, m |-> BShr(q, 1).q, e |-> e + 1]
    ELSE [neg |-> neg, m |-> q, e |-> e]

\* to nearest, ties to even: q is the 53-bit head, guard the first bit
\* dropped, rest whether any later bit is set
RoundNearestEven(neg, q, e, guard, rest) ==
    Renormalize(neg, IF guard /\ (rest \/ BOdd(q)) THEN BAdd(q, <<1>>) ELSE q, e)

\* h is the 54-bit head of the significand: 53 bits and the guard bit
RoundHead(neg, h, e, sticky) ==
    RoundNearestEven(neg, BShr(h.q, 1).q, e, BOdd(h.q), h.nz \/ sticky)

\* M has L bits
RoundLen(neg, M, e, sticky, L) ==
    IF L = 0 THEN FZero
    ELSE IF L <= MantBits
         THEN [neg |-> neg, m |-> BShl(M, MantBits - L), e |-> e - (MantBits - L)]
    ELSE RoundHead(neg, BShr(M, L - MantBits - 1), e + L - MantBits, sticky)

\* round M * 2^e (plus a sticky rest below the last bit) to 53 bits,
\* to nearest, ties to even
Round53(neg, M, e, sticky) == RoundLen(neg, M, e, sticky, BitLen(M))

Abs(n) == IF n < 0 THEN -n ELSE n

\* an integer-valued number
FromInt(n) == Round53(n < 0, BFromNat(Abs(n)), 0, FALSE)

\* x * y
FMul(x, y) == Round53(x.neg # y.neg, BMul(x.m, y.m), x.e + y.e, FALSE)

\* x / k for an integer k, 0 < k < 2^15
FDivQuot(x, d) == Round53(x.neg, BTrim(d.q), x.e - 4 * LimbBits, d.r # 0)

FDivInt(x, k) == FDivQuot(x, BDivSmall(BShl(x.m, 4 * LimbBits), k, 0))

\* the decimal literal n / 10^k, given as numerator and denominator: the
\* nearest binary64 value
Dec(n, den) == FDivInt(FromInt(n), den)

\* x + y for x, y >= 0
FAdd(x, y) ==
    IF x.m = <<>> THEN y
    ELSE IF y.m = <<>> THEN x
    ELSE LET e == IF x.e < y.e THEN x.e ELSE y.e
         IN  Round53(FALSE, BAdd(BShl(x.m, x.e - e), BShl(y.m, y.e - e)), e, FALSE)

\* x < y for x, y >= 0
FLess(x, y) ==
    IF y.m = <<>> THEN FALSE
    ELSE IF x.m = <<>> THEN TRUE
    ELSE IF x.e # y.e THEN x.e < y.e
    ELSE BLess(x.m, y.m)

\* Math.min(x, y) for x, y >= 0
FMin(x, y) == IF FLess(y, x) THEN y ELSE x

\* floor(2|x|) and whether |x| has bits below the half bit
HalfSplit(x) ==
    IF x.e >= 0 THEN [q |-> BShl(x.m, x.e + 1), nz |-> FALSE]
    ELSE BShr(x.m, (-x.e) - 1)

Sign(neg) == IF neg THEN -1 ELSE 1

\* nearest integer, ties toward +infinity: a positive number goes up from
\* .5 on, a negative number goes away from zero only beyond .5
RoundSplit(neg, h) ==
    Sign(neg) * (BToInt(BShr(h.q, 1).q)
                 + (IF BOdd(h.q) /\ (~neg \/ h.nz) THEN 1 ELSE 0))

\* Math.round
JSRound(x) == RoundSplit(x.neg, HalfSplit(x))

\* toward -infinity: a negative number with a fraction goes away from zero
FloorSplit(neg, h) ==
    Sign(neg) * (BToInt(BShr(h.q, 1).q)
                 + (IF neg /\ (BOdd(h.q) \/ h.nz) THEN 1 ELSE 0))

\* Math.floor
JSFloor(x) == FloorSplit(x.neg, HalfSplit(x))

(***************************************************************************)
(* Rot score, 0-100, higher = staler.                                      *)
(***************************************************************************)
\* part_001
calculateRotScoreP1(d) ==
    IF d <= 14 THEN JSRound(FMul(FDivInt(FromInt(d), 14), FromInt(10)))
    ELSE IF d <= 21
         THEN JSRound(FAdd(FromInt(10), FMul(FDivInt(FromInt(d - 14), 7), FromInt(20))))
    ELSE IF d <= 56
         THEN JSRound(FAdd(FromInt(30), FMul(FDivInt(FromInt(d - 21), 35), FromInt(30))))
    ELSE IF d <= 70
         THEN JSRound(FAdd(FromInt(60), FMul(FDivInt(FromInt(d - 56), 14), FromInt(20))))
    ELSE Min(100, JSRound(FAdd(FromInt(80), FMul(FDivInt(FromInt(d - 70), 30), FromInt(20)))))

\* part_000 with Math.floor in place of Math.round
calculateRotScoreP0_Floor(d) ==
    IF d <= 14 THEN JSFloor(FMul(FDivInt(FromInt(d), 14), FromInt(10)))
    ELSE IF d <= 21
         THEN JSFloor(FAdd(FromInt(10), FMul(FDivInt(FromInt(d - 14), 7), FromInt(20))))
    ELSE IF d <= 56
         THEN JSFloor(FAdd(FromInt(30), FMul(FDivInt(FromInt(d - 21), 35), FromInt(30))))
    ELSE IF d <= 70
         THEN JSFloor(FAdd(FromInt(60), FMul(FDivInt(FromInt(d - 56), 14), FromInt(20))))
    ELSE Min(100, JSFloor(FAdd(FromInt(80), FMul(FDivInt(FromInt(d - 70), 30), FromInt(20)))))

\* part_000
calculateRotScoreP0(d) ==
    IF d <= 14 THEN JSRound(FMul(FDivInt(FromInt(d), 14), FromInt(10)))
    ELSE IF d <= 21
         THEN JSRound(FAdd(FromInt(10), FMul(FDivInt(FromInt(d - 14), 7), FromInt(20))))
    ELSE IF d <= 56
         THEN JSRound(FAdd(FromInt(30), FMul(FDivInt(FromInt(d - 21), 35), FromInt(30))))
    ELSE IF d <= 70
         THEN JSRound(FAdd(FromInt(60), FMul(FDivInt(FromInt(d - 56), 14), FromInt(20))))
    ELSE Min(100, JSRound(FAdd(FromInt(80), FMul(FDivInt(FromInt(d - 70), 30), FromInt(20)))))

\* server.js with the third band starting from 21 instead of 31
calculateRotScoreServer_Seam(d) ==
    LET rotScore ==
          IF d <= 14 THEN JSFloor(FMul(FromInt(d), Dec(7, 10)))
          ELSE IF d <= 21
               THEN JSFloor(FAdd(FromInt(11), FMul(FromInt(d - 14), Dec(27, 10))))
          ELSE IF d <= 56
               THEN JSFloor(FAdd(FromInt(21), FMul(FromInt(d - 21), Dec(85, 100))))
          ELSE IF d <= 70
               THEN JSFloor(FAdd(FromInt(61), FMul(FromInt(d - 56), Dec(135, 100))))
          ELSE Min(100, JSFloor(FAdd(FromInt(81), FMul(FromInt(d - 70), Dec(5, 10)))))
    IN  Min(rotScore, 100)

\* server.js: the rotScore field of the returned record
calculateRotScoreServer(d) ==
    LET rotScore ==
          IF d <= 14 THEN JSFloor(FMul(FromInt(d), Dec(7, 10)))
          ELSE IF d <= 21
               THEN JSFloor(FAdd(FromInt(11), FMul(FromInt(d - 14), Dec(27, 10))))
          ELSE IF d <= 56
               THEN JSFloor(FAdd(FromInt(31), FMul(FromInt(d - 21), Dec(85, 100))))
          ELSE IF d <= 70
               THEN JSFloor(FAdd(FromInt(61), FMul(FromInt(d - 56), Dec(135, 100))))
          ELSE Min(100, JSFloor(FAdd(FromInt(81), FMul(FromInt(d - 70), Dec(5, 10)))))
    IN  Min(rotScore, 100)

(***************************************************************************)
(* part_001: review health, profile, photo and response scorers.           *)
(***************************************************************************)
\* calculateReviewHealthScore without the cap of the volume component
calculateReviewHealthScore_NoCap(daysSinceReview, totalReviews, avgRating) ==
    LET freshnessScore == FromInt(100 - calculateRotScoreP1(daysSinceReview))
        volumeScore    == FMul(FDivInt(FromInt(totalReviews), 100), FromInt(100))
        qualityScore   == FMul(FDivInt(avgRating, 5), FromInt(100))
    IN  JSRound(FAdd(FAdd(FMul(freshnessScore, Dec(4, 10)),
                          FMul(volumeScore, Dec(3, 10))),
                     FMul(qualityScore, Dec(3, 10))))

\* avgRating is a binary64 value
calculateReviewHealthScore(daysSinceReview, totalReviews, avgRating) ==
    LET freshnessScore == FromInt(100 - calculateRotScoreP1(daysSinceReview))
        volumeScore    == FMin(FromInt(100),
                               FMul(FDivInt(FromInt(totalReviews), 100), FromInt(100)))
        qualityScore   == FMul(FDivInt(avgRating, 5), FromInt(100))
    IN  JSRound(FAdd(FAdd(FMul(freshnessScore, Dec(4, 10)),
                          FMul(volumeScore, Dec(3, 10))),
                     FMul(qualityScore, Dec(3, 10))))

ServiceArea == "Service area business"

\* calculateProfileScore with full description credit from 50 characters on
calculateProfileScore_Desc50(placeData) ==
    LET s1 == IF placeData.title THEN 10 ELSE 0
        i1 == IF placeData.title THEN <<>> ELSE <<"Missing business name">>
        s2 == IF placeData.address # "" /\ placeData.address # ServiceArea
              THEN 10 ELSE 5
        s3 == IF placeData.phone THEN 15 ELSE 0
        i3 == IF placeData.phone THEN <<>> ELSE <<"Missing phone number">>
        r3 == IF placeData.phone THEN <<>>
              ELSE <<"Add your phone number to your GBP profile">>
        s4 == IF placeData.website THEN 15 ELSE 0
        i4 == IF placeData.website THEN <<>> ELSE <<"Missing website">>
        r4 == IF placeData.website THEN <<>>
              ELSE <<"Add your website URL to capture more leads">>
        s5 == IF (placeData.hours \/ placeData.operating_hours) THEN 15 ELSE 0
        i5 == IF (placeData.hours \/ placeData.operating_hours) THEN <<>> ELSE <<"Missing business hours">>
        r5 == IF (placeData.hours \/ placeData.operating_hours) THEN <<>>
              ELSE <<"Add your operating hours - customers need to know when you're available">>
        s6 == IF placeData.description >= 50 THEN 10
              ELSE IF placeData.description > 0 THEN 5 ELSE 0
        i6 == IF placeData.description > 0 THEN <<>>
              ELSE <<"Missing business description">>
        r6 == IF placeData.description >= 50 THEN <<>>
              ELSE IF placeData.description > 0
                   THEN <<"Expand your business description (aim for 250+ characters)">>
              ELSE <<"Add a detailed business description with your services and service area">>
        s7 == IF placeData.types >= 3 THEN 15
              ELSE IF placeData.types >= 1 THEN 8 ELSE 0
        i7 == IF placeData.types >= 1 THEN <<>>
              ELSE <<"Missing business categories">>
        r7 == IF placeData.types >= 3 THEN <<>>
              ELSE IF placeData.types >= 1
                   THEN <<"Add more business categories (you have "
                           \o ToString(placeData.types) \o ", aim for 3-5)">>
              ELSE <<"Add relevant business categories to appear in more searches">>
        s8 == IF (placeData.service_options \/ placeData.extensions) THEN 10 ELSE 0
        r8 == IF (placeData.service_options \/ placeData.extensions) THEN <<>>
              ELSE <<"Add service attributes (24/7, emergency service, free estimates, etc.)">>
        score    == s1 + s2 + s3 + s4 + s5 + s6 + s7 + s8
        maxScore == 10 + 10 + 15 + 15 + 15 + 10 + 15 + 10
    IN  [score |-> JSRound(FMul(FDivInt(FromInt(score), maxScore), FromInt(100))),
         issues |-> i1 \o i3 \o i4 \o i5 \o i6 \o i7,
         recommendations |-> r3 \o r4 \o r5 \o r6 \o r7 \o r8]

\* placeData: title, phone, website, hours, operating_hours,
\* service_options, extensions are TRUE when the key of that name is
\* present and truthy; address is the address string, ""
\* when absent; description is the length of the description, 0 when
\* absent or empty; types is the number of categories, 0 when absent.
calculateProfileScore(placeData) ==
    LET s1 == IF placeData.title THEN 10 ELSE 0
        i1 == IF placeData.title THEN <<>> ELSE <<"Missing business name">>
        s2 == IF placeData.address # "" /\ placeData.address # ServiceArea
              THEN 10 ELSE 5
        s3 == IF placeData.phone THEN 15 ELSE 0
        i3 == IF placeData.phone THEN <<>> ELSE <<"Missing phone number">>
        r3 == IF placeData.phone THEN <<>>
              ELSE <<"Add your phone number to your GBP profile">>
        s4 == IF placeData.website THEN 15 ELSE 0
        i4 == IF placeData.website THEN <<>> ELSE <<"Missing website">>
        r4 == IF placeData.website THEN <<>>
              ELSE <<"Add your website URL to capture more leads">>
        s5 == IF (placeData.hours \/ placeData.operating_hours) THEN 15 ELSE 0
        i5 == IF (placeData.hours \/ placeData.operating_hours) THEN <<>> ELSE <<"Missing business hours">>
        r5 == IF (placeData.hours \/ placeData.operating_hours) THEN <<>>
              ELSE <<"Add your operating hours - customers need to know when you're available">>
        s6 == IF placeData.description > 50 THEN 10
              ELSE IF placeData.description > 0 THEN 5 ELSE 0
        i6 == IF placeData.description > 0 THEN <<>>
              ELSE <<"Missing business description">>
        r6 == IF placeData.description > 50 THEN <<>>
              ELSE IF placeData.description > 0
                   THEN <<"Expand your business description (aim for 250+ characters)">>
              ELSE <<"Add a detailed business description with your services and service area">>
        s7 == IF placeData.types >= 3 THEN 15
              ELSE IF placeData.types >= 1 THEN 8 ELSE 0
        i7 == IF placeData.types >= 1 THEN <<>>
              ELSE <<"Missing business categories">>
        r7 == IF placeData.types >= 3 THEN <<>>
              ELSE IF placeData.types >= 1
                   THEN <<"Add more business categories (you have "
                           \o ToString(placeData.types) \o ", aim for 3-5)">>
              ELSE <<"Add relevant business categories to appear in more searches">>
        s8 == IF (placeData.service_options \/ placeData.extensions) THEN 10 ELSE 0
        r8 == IF (placeData.service_options \/ placeData.extensions) THEN <<>>
              ELSE <<"Add service attributes (24/7, emergency service, free estimates, etc.)">>
        score    == s1 + s2 + s3 + s4 + s5 + s6 + s7 + s8
        maxScore == 10 + 10 + 15 + 15 + 15 + 10 + 15 + 10
    IN  [score |-> JSRound(FMul(FDivInt(FromInt(score), maxScore), FromInt(100))),
         issues |-> i1 \o i3 \o i4 \o i5 \o i6 \o i7,
         recommendations |-> r3 \o r4 \o r5 \o r6 \o r7 \o r8]

\* calculatePhotoScore with the top tier starting above 50 photos
calculatePhotoScore_Over50(photoCount) ==
    IF photoCount > 50 THEN
        [score |-> 100, issues |-> <<>>, recommendations |-> <<>>, count |-> photoCount]
    ELSE IF photoCount >= 25 THEN
        [score |-> 75, issues |-> <<>>,
         recommendations |-> <<"Add " \o ToString(50 - photoCount)
                                \o " more photos to reach optimal level">>,
         count |-> photoCount]
    ELSE IF photoCount >= 10 THEN
        [score |-> 50, issues |-> <<"Low photo count">>,
         recommendations |-> <<"Businesses with 50+ photos get 520% more calls - add more photos!">>,
         count |-> photoCount]
    ELSE IF photoCount >= 1 THEN
        [score |-> 25, issues |-> <<"Very few photos">>,
         recommendations |-> <<"URGENT: Add more photos immediately - you're missing significant visibility">>,
         count |-> photoCount]
    ELSE
        [score |-> 0, issues |-> <<"NO PHOTOS">>,
         recommendations |-> <<"CRITICAL: Add photos NOW - profiles without photos get 42% fewer requests for directions">>,
         count |-> photoCount]

calculatePhotoScore(photoCount) ==
    IF photoCount >= 50 THEN
        [score |-> 100, issues |-> <<>>, recommendations |-> <<>>, count |-> photoCount]
    ELSE IF photoCount >= 25 THEN
        [score |-> 75, issues |-> <<>>,
         recommendations |-> <<"Add " \o ToString(50 - photoCount)
                                \o " more photos to reach optimal level">>,
         count |-> photoCount]
    ELSE IF photoCount >= 10 THEN
        [score |-> 50, issues |-> <<"Low photo count">>,
         recommendations |-> <<"Businesses with 50+ photos get 520% more calls - add more photos!">>,
         count |-> photoCount]
    ELSE IF photoCount >= 1 THEN
        [score |-> 25, issues |-> <<"Very few photos">>,
         recommendations |-> <<"URGENT: Add more photos immediately - you're missing significant visibility">>,
         count |-> photoCount]
    ELSE
        [score |-> 0, issues |-> <<"NO PHOTOS">>,
         recommendations |-> <<"CRITICAL: Add photos NOW - profiles without photos get 42% fewer requests for directions">>,
         count |-> photoCount]

\* reviews: a sequence of records whose response field is TRUE when the
\* review carries an owner response
calculateResponseScore(reviews) ==
    IF Len(reviews) = 0 THEN
        [score |-> 0, responseRate |-> 0,
         issues |-> <<"No reviews to respond to">>,
         recommendations |-> <<"Get your first reviews, then respond to 100% of them">>]
    ELSE
        LET responsesFound == Cardinality({i \in 1..Len(reviews) : reviews[i].response})
            responseRate   == JSRound(FMul(FDivInt(FromInt(responsesFound), Len(reviews)),
                                           FromInt(100)))
        IN  [score |-> responseRate, responseRate |-> responseRate,
             issues |-> IF responseRate < 50
                        THEN <<"Only " \o ToString(responseRate) \o "% response rate">>
                        ELSE <<>>,
             recommendations |->
                 IF responseRate < 50
                 THEN <<"Respond to ALL reviews - both positive and negative">>
                 ELSE IF responseRate < 100
                      THEN <<"You're at " \o ToString(responseRate)
                              \o "% response rate - aim for 100%">>
                 ELSE <<>>]

getStatusFromScore(score) ==
    IF score >= 90 THEN [status |-> "Excellent", color |-> "#10b981"]
    ELSE IF score >= 70 THEN [status |-> "Good", color |-> "#22c55e"]
    ELSE IF score >= 50 THEN [status |-> "Fair", color |-> "#f59e0b"]
    ELSE IF score >= 30 THEN [status |-> "Poor", color |-> "#f97316"]
    ELSE [status |-> "Critical", color |-> "#ef4444"]

getStatus_Strict(rotScore) ==
    IF rotScore < 10 THEN [status |-> "Healthy Heartbeat", urgency |-> "low"]
    ELSE IF rotScore <= 30 THEN [status |-> "Early Decay", urgency |-> "medium"]
    ELSE IF rotScore <= 60 THEN [status |-> "Freshness Failing", urgency |-> "high"]
    ELSE IF rotScore <= 80 THEN [status |-> "Rot Zone", urgency |-> "critical"]
    ELSE [status |-> "Critical Decay", urgency |-> "critical"]

\* part_000: status and urgency from a rot score
getStatus(rotScore) ==
    IF rotScore <= 10 THEN [status |-> "Healthy Heartbeat", urgency |-> "low"]
    ELSE IF rotScore <= 30 THEN [status |-> "Early Decay", urgency |-> "medium"]
    ELSE IF rotScore <= 60 THEN [status |-> "Freshness Failing", urgency |-> "high"]
    ELSE IF rotScore <= 80 THEN [status |-> "Rot Zone", urgency |-> "critical"]
    ELSE [status |-> "Critical Decay", urgency |-> "critical"]

\* server.js: the record calculateRotScore returns; status and urgency are
\* set by the band of the day count, next to the score
calculateRotScoreServerResult(d) ==
    IF d <= 14
    THEN [rotScore |-> calculateRotScoreServer(d),
          status |-> "Healthy Heartbeat", urgency |-> "low"]
    ELSE IF d <= 21
    THEN [rotScore |-> calculateRotScoreServer(d),
          status |-> "Early Decay", urgency |-> "medium"]
    ELSE IF d <= 56
    THEN [rotScore |-> calculateRotScoreServer(d),
          status |-> "Freshness Failing", urgency |-> "high"]
    ELSE IF d <= 70
    THEN [rotScore |-> calculateRotScoreServer(d),
          status |-> "Rot Zone", urgency |-> "critical"]
    ELSE [rotScore |-> calculateRotScoreServer(d),
          status |-> "Critical Decay", urgency |-> "critical"]

(***************************************************************************)
(* part_001: parseRelativeDate.  A string is a sequence of characters; a   *)
(* Date is the day number since the epoch and the millisecond of the day,  *)
(* in the local time zone of the server, taken to be UTC.                  *)
(***************************************************************************)
Digits == <<"0", "1", "2", "3", "4", "5", "6", "7", "8", "9">>
UpperLetters == <<"A", "B", "C", "D", "E", "F", "G", "H", "I", "J", "K", "L", "M",
                  "N", "O", "P", "Q", "R", "S", "T", "U", "V", "W", "X", "Y", "Z">>
LowerLetters == <<"a", "b", "c", "d", "e", "f", "g", "h", "i", "j", "k", "l", "m",
                  "n", "o", "p", "q", "r", "s", "t", "u", "v", "w", "x", "y", "z">>
IsDigit(c) == \E k \in 1..Len(Digits) : Digits[k] = c
DigitValue(c) == (CHOOSE k \in 1..Len(Digits) : Digits[k] = c) - 1
LowerChar(c) ==
    IF \E k \in 1..Len(UpperLetters) : UpperLetters[k] = c
    THEN LowerLetters[CHOOSE k \in 1..Len(UpperLetters) : UpperLetters[k] = c]
    ELSE c
toLowerCase(str) == [i \in 1..Len(str) |-> LowerChar(str[i])]
includes(str, sub) ==
    \E i \in 1..(Len(str) - Len(sub) + 1) : SubSeq(str, i, i + Len(sub) - 1) = sub

\* str.match(/(\d+)/): the first maximal run of digits, <<>> for no match
DigitRunFrom(str, a) ==
    SubSeq(str, a, CHOOSE b \in a..Len(str) :
                      /\ \A k \in a..b : IsDigit(str[k])
                      /\ b = Len(str) \/ ~IsDigit(str[b + 1]))
matchDigits(str) ==
    IF \E i \in 1..Len(str) : IsDigit(str[i])
    THEN DigitRunFrom(str, CHOOSE i \in 1..Len(str) :
                              /\ IsDigit(str[i])
                              /\ \A k \in 1..(i - 1) : ~IsDigit(str[k]))
    ELSE <<>>
RECURSIVE parseInt(_)
parseInt(digits) ==
    IF Len(digits) = 0 THEN 0
    ELSE 10 * parseInt(SubSeq(digits, 1, Len(digits) - 1))
         + DigitValue(digits[Len(digits)])
\* match ? parseInt(match[1]) : 1
quantityFrom(match) == IF match = <<>> THEN 1 ELSE parseInt(match)
quantityOf(str) == quantityFrom(matchDigits(str))

\* civil calendar of a day number and back (proleptic Gregorian, day 0 =
\* 1970-01-01); month is 0-based as in Date.getMonth
DaysFromCivil(y, m, d) ==
    LET yy  == IF m <= 1 THEN y - 1 ELSE y
        era == yy \div 400
        yoe == yy - era * 400
        mp  == (m + 10) % 12
        doy == (153 * mp + 2) \div 5 + d - 1
        doe == yoe * 365 + yoe \div 4 - yoe \div 100 + doy
    IN  era * 146097 + doe - 719468
CivilFromDays(z) ==
    LET zz  == z + 719468
        era == zz \div 146097
        doe == zz - era * 146097
        yoe == (doe - doe \div 1460 + doe \div 36524 - doe \div 146096) \div 365
        doy == doe - (365 * yoe + yoe \div 4 - yoe \div 100)
        mp  == (5 * doy + 2) \div 153
        d   == doy - (153 * mp + 2) \div 5 + 1
        m   == (mp + 2) % 12
    IN  [y |-> yoe + era * 400 + (IF m <= 1 THEN 1 ELSE 0), m |-> m, d |-> d]
\* MakeDay with a month outside 0..11 and a day past the end of the month
MakeDay(y, m, d) == DaysFromCivil(y + m \div 12, m % 12, 1) + d - 1
\* new Date(date - n * 24 * 60 * 60 * 1000)
minusDays(date, n) == [day |-> date.day - n, ms |-> date.ms]
\* date.setMonth(date.getMonth() - months)
setMonthBack(date, months) ==
    LET c == CivilFromDays(date.day)
    IN  [day |-> MakeDay(c.y, c.m - months, c.d), ms |-> date.ms]
\* date.setFullYear(date.getFullYear() - years)
setFullYearBack(date, years) ==
    LET c == CivilFromDays(date.day)
    IN  [day |-> MakeDay(c.y - years, c.m, c.d), ms |-> date.ms]

\* an absent argument (undefined or null), and the null result
Absent == <<"undefined">>
NullDate == [day |-> 0 - 1, ms |-> 0 - 1]

\* the body of parseRelativeDate on the lower-cased string
parseLower_WeekFirst(str, now) ==
    IF \/ includes(str, <<"h", "o", "u", "r">>)
       \/ includes(str, <<"m", "i", "n", "u", "t", "e">>)
       \/ includes(str, <<"s", "e", "c", "o", "n", "d">>)
    THEN now
    ELSE IF includes(str, <<"w", "e", "e", "k">>)
    THEN minusDays(now, quantityOf(str) * 7)
    ELSE IF includes(str, <<"d", "a", "y">>)
    THEN minusDays(now, quantityOf(str))
    ELSE IF includes(str, <<"m", "o", "n", "t", "h">>)
    THEN setMonthBack(now, quantityOf(str))
    ELSE IF includes(str, <<"y", "e", "a", "r">>)
    THEN setFullYearBack(now, quantityOf(str))
    ELSE NullDate
parseLower(str, now) ==
    IF \/ includes(str, <<"h", "o", "u", "r">>)
       \/ includes(str, <<"m", "i", "n", "u", "t", "e">>)
       \/ includes(str, <<"s", "e", "c", "o", "n", "d">>)
    THEN now
    ELSE IF includes(str, <<"d", "a", "y">>)
    THEN minusDays(now, quantityOf(str))
    ELSE IF includes(str, <<"w", "e", "e", "k">>)
    THEN minusDays(now, quantityOf(str) * 7)
    ELSE IF includes(str, <<"m", "o", "n", "t", "h">>)
    THEN setMonthBack(now, quantityOf(str))
    ELSE IF includes(str, <<"y", "e", "a", "r">>)
    THEN setFullYearBack(now, quantityOf(str))
    ELSE NullDate

parseRelativeDate(relativeStr, now) ==
    IF relativeStr = Absent \/ relativeStr = <<>> THEN NullDate
    ELSE parseLower(toLowerCase(relativeStr), now)

\* full-audit: the weighted average of the four sub-scores
overallScoreOf(reviewHealthScore, profile, photo, response) ==
    JSRound(FAdd(FAdd(FAdd(FMul(FromInt(reviewHealthScore), Dec(35, 100)),
                           FMul(FromInt(profile), Dec(25, 100))),
                      FMul(FromInt(photo), Dec(20, 100))),
                 FMul(FromInt(response), Dec(20, 100))))

(***************************************************************************)
(* State: one call into the scoring engine.  fn names the entry point,     *)
(* the input variables hold its arguments and the result variables what    *)
(* it returned; pc is the position of the call.                            *)
(***************************************************************************)
VARIABLES fn, pc, days, days2, totalReviews, rating10, placeData,
          photoCount, photoCount2, reviews,
          rotS, rotP0, rotP1, healthScore, profileScore,
          photoScore, photoScore2, responseScore, overallScore

\* label lookups: the score looked up and what each lookup returned
VARIABLES score, labels

labelVars == <<score, labels>>

NoLabel == [status |-> "none"]
NoLabels == [p0 |-> NoLabel, p1 |-> NoLabel, server |-> NoLabel]
LabelIdle == score = 0 /\ labels = NoLabels

\* parseRelativeDate: the argument, the clock and the Date returned
VARIABLES relativeStr, now, parsed

parseVars == <<relativeStr, now, parsed>>

NotParsed == [day |-> 0 - 2, ms |-> 0 - 2]
ParseIdle == relativeStr = <<>> /\ now = [day |-> 0, ms |-> 0] /\ parsed = NotParsed

\* one request to an endpoint: which handler runs, the request body, the
\* configured sinks, the handler's position, the provider calls made so
\* far, the business found, the handler's locals, the sink calls fired and
\* the response sent
VARIABLES handler, req, cfg, hpc, calls, place, local, sinks, resp

handlerVars == <<handler, req, cfg, hpc, calls, place, local, sinks, resp>>

\* full-audit: the issue and recommendation lists of the result
VARIABLES criticalIssues, topRecommendations

reportVars == <<criticalIssues, topRecommendations>>

\* the variables outside the scoring calls
rest == <<labelVars, parseVars, handlerVars, reportVars>>

vars == <<fn, pc, days, days2, totalReviews, rating10, placeData,
          photoCount, photoCount2, reviews,
          rotS, rotP0, rotP1, healthScore, profileScore,
          photoScore, photoScore2, responseScore, overallScore, rest>>

inputs == <<fn, days, days2, totalReviews, rating10, placeData,
            photoCount, photoCount2, reviews>>

\* bounds of the inputs
NegDays == 3
MaxDays == 110
MaxReviews == 101
MaxTypes == 3
MaxPhotos == 52
MaxReviewList == 5
MaxResponded == 40

\* "no reviews found / unknown" day count
Sentinel == 999
\* avgRating is at most 5.0; ratings are carried in tenths
MaxRating10 == 50
\* every score is at most 100
MaxScore == 100
\* server.js: day count of a business without dated reviews
NoReviewDays == 365

\* marks a result not computed yet; below every value a scorer returns
NoScore == 0 - 1000
NoPair == <<NoScore, NoScore>>
NoResult == [score |-> NoScore, issues |-> <<>>, recommendations |-> <<>>]
NoPhoto == [score |-> NoScore, issues |-> <<>>, recommendations |-> <<>>,
            count |-> NoScore]
NoResponse == [score |-> NoScore, responseRate |-> NoScore, issues |-> <<>>,
               recommendations |-> <<>>]

RotDays == ((-NegDays)..MaxDays) \cup {Sentinel}
HealthDays == {0, 12, 30, Sentinel}
DescLens == {0, 1, 50, 51, 60}
Addresses == {"", ServiceArea, "12 Main St"}
PlaceDatas == [title : BOOLEAN, address : Addresses, phone : BOOLEAN,
               website : BOOLEAN, hours : BOOLEAN, operating_hours : BOOLEAN,
               description : DescLens, types : 0..MaxTypes,
               service_options : BOOLEAN, extensions : BOOLEAN]
EmptyPlace == [title |-> FALSE, address |-> "", phone |-> FALSE,
               website |-> FALSE, hours |-> FALSE, operating_hours |-> FALSE,
               description |-> 0, types |-> 0,
               service_options |-> FALSE, extensions |-> FALSE]
FullPlace == [title |-> TRUE, address |-> "12 Main St", phone |-> TRUE,
              website |-> TRUE, hours |-> TRUE, operating_hours |-> TRUE,
              description |-> 60, types |-> 3,
              service_options |-> TRUE, extensions |-> TRUE]

RECURSIVE ReviewLists(_)
ReviewLists(n) ==
    IF n = 0 THEN {<<>>}
    ELSE LET shorter == ReviewLists(n - 1)
         IN  shorter \cup {Append(l, [response |-> b]) :
                             l \in {x \in shorter : Len(x) = n - 1}, b \in BOOLEAN}

\* k reviews with an owner response followed by n - k without
Responded(k, n) == [i \in 1..n |-> [response |-> i <= k]]

\* review lists up to MaxResponded long, by their number of owner responses
RespondedLists ==
    {Responded(k, n) : k \in 0..MaxResponded, n \in 0..MaxResponded}

\* snapshots of the full audit
AuditDays == {0, 10, 20, 31, Sentinel}
AuditTotals == {0, 3, 80, 150}
AuditRatings == {0, 33, 48, 50}
AuditPlaces == {EmptyPlace, FullPlace,
                [EmptyPlace EXCEPT !.address = ServiceArea],
                [FullPlace EXCEPT !.description = 50, !.types = 2],
                [EmptyPlace EXCEPT !.title = TRUE, !.phone = TRUE],
                [FullPlace EXCEPT !.website = FALSE, !.service_options = FALSE,
                                  !.extensions = FALSE],
                [EmptyPlace EXCEPT !.title = TRUE, !.operating_hours = TRUE],
                [FullPlace EXCEPT !.hours = FALSE, !.service_options = FALSE]}
AuditPhotos == {0, 5, 10, 49, 60}
AuditReviews == {Responded(0, 0), Responded(4, 5), Responded(2, 4),
                 Responded(0, 3), Responded(2, 3), Responded(2, 2)}

\* resting values of the request variables
NoHandler == [variant |-> "none", endpoint |-> "none"]
NoReq == [email |-> FALSE, businessName |-> FALSE, placeId |-> FALSE]
NoCfg == [airtable |-> FALSE, zapier |-> FALSE, slack |-> FALSE]
\* reviewDays of a business without a dated review
NoDated == 0 - 2000
\* a review without publishTime
NoTime == 0 - 3000
\* the number NaN: new Date(undefined) in arithmetic
NaN == 0 - 4000
\* publish: the reviews of the details, each as the days from its
\* publishTime to the request; reviewDays: the one the handler takes as newest
\* photos: the length of the photos list of the place, 0 without one
NoPlace == [found |-> FALSE, dataId |-> FALSE, placeId |-> FALSE,
            totalReviews |-> 0, rating10 |-> 0, profile |-> EmptyPlace,
            photos |-> 0, publish |-> <<>>, reviewDays |-> NoDated]
NoLocal == [query |-> 0, reviews |-> <<>>, photos |-> 0]
NoResp == [status |-> 0, success |-> FALSE, found |-> "none",
           daysSinceReview |-> NoScore, rotScore |-> NoScore,
           score |-> NoScore, label |-> "none"]
HandlerIdle ==
    /\ handler = NoHandler /\ req = NoReq /\ cfg = NoCfg /\ hpc = "idle"
    /\ calls = <<>> /\ place = NoPlace /\ local = NoLocal
    /\ sinks = <<>> /\ resp = NoResp

RestIdle == LabelIdle /\ ParseIdle /\ HandlerIdle

NoResults ==
    /\ rotS = NoPair /\ rotP0 = NoPair /\ rotP1 = NoPair
    /\ healthScore = NoScore /\ profileScore = NoResult
    /\ photoScore = NoPhoto /\ photoScore2 = NoPhoto
    /\ responseScore = NoResponse /\ overallScore = NoScore
    /\ criticalIssues = <<>> /\ topRecommendations = <<>>

\* full-audit: the entries kept of the issue and recommendation lists
TopEntries == 5
\* list.slice(0, n)
slice(list, n) == SubSeq(list, 1, Min(n, Len(list)))
\* full-audit: the issues of the three scorers, photo issues first
allIssues_PhotoFirst(pr, ph, rs) == ph.issues \o pr.issues \o rs.issues
\* full-audit: the issues of the three scorers, in the order compiled
allIssues(pr, ph, rs) == pr.issues \o ph.issues \o rs.issues
\* full-audit: the recommendations of the three scorers, with the
\* review-specific one put first (stale) or last (ageing)
allRecommendations(d, pr, ph, rs) ==
    LET compiled == pr.recommendations \o ph.recommendations \o rs.recommendations
        unshifted == IF d > 30
                     THEN <<"Get a new review ASAP - it's been " \o ToString(d)
                            \o " days!">> \o compiled
                     ELSE compiled
    IN  IF d > 14 /\ d <= 30
        THEN Append(unshifted,
                    "Request reviews from recent customers to maintain freshness")
        ELSE unshifted

\* calls of calculateRotScore, on a pair of day counts, in each variant
InitRot ==
    /\ fn = "rot" /\ pc = "server"
    /\ days \in RotDays /\ days2 \in RotDays /\ days <= days2
    /\ totalReviews = 0 /\ rating10 = 0 /\ placeData = EmptyPlace
    /\ photoCount = 0 /\ photoCount2 = 0 /\ reviews = <<>>
    /\ NoResults /\ RestIdle

\* calls of calculateReviewHealthScore
InitHealth ==
    /\ fn = "health" /\ pc = "call"
    /\ days \in HealthDays /\ days2 = days
    /\ totalReviews \in 0..MaxReviews /\ rating10 \in 0..MaxRating10
    /\ placeData = EmptyPlace
    /\ photoCount = 0 /\ photoCount2 = 0 /\ reviews = <<>>
    /\ NoResults /\ RestIdle

\* calls of calculateProfileScore, calculatePhotoScore (on a pair of
\* counts) and calculateResponseScore
InitScorers ==
    /\ pc = "call"
    /\ days = 0 /\ days2 = 0 /\ totalReviews = 0 /\ rating10 = 0
    /\ \/ /\ fn = "profile" /\ placeData \in PlaceDatas
          /\ photoCount = 0 /\ photoCount2 = 0 /\ reviews = <<>>
       \/ /\ fn = "photo" /\ placeData = EmptyPlace
          /\ photoCount \in 0..MaxPhotos /\ photoCount2 \in 0..MaxPhotos
          /\ photoCount <= photoCount2 /\ reviews = <<>>
       \/ /\ fn = "response" /\ placeData = EmptyPlace
          /\ photoCount = 0 /\ photoCount2 = 0
          /\ reviews \in ReviewLists(MaxReviewList) \cup RespondedLists
    /\ NoResults /\ RestIdle

\* the scoring step of POST /api/full-audit on one snapshot
InitAudit ==
    /\ fn = "audit" /\ pc = "call"
    /\ days \in AuditDays /\ days2 = days
    /\ totalReviews \in AuditTotals /\ rating10 \in AuditRatings
    /\ placeData \in AuditPlaces
    /\ photoCount \in AuditPhotos /\ photoCount2 = photoCount
    /\ reviews \in AuditReviews
    /\ NoResults /\ RestIdle

RotServer ==
    /\ fn = "rot" /\ pc = "server"
    /\ rotS' = <<calculateRotScoreServer(days), calculateRotScoreServer(days2)>>
    /\ pc' = "p0"
    /\ UNCHANGED <<rest, inputs, rotP0, rotP1, healthScore, profileScore, photoScore,
                   photoScore2, responseScore, overallScore>>

RotP0 ==
    /\ fn = "rot" /\ pc = "p0"
    /\ rotP0' = <<calculateRotScoreP0(days), calculateRotScoreP0(days2)>>
    /\ pc' = "p1"
    /\ UNCHANGED <<rest, inputs, rotS, rotP1, healthScore, profileScore, photoScore,
                   photoScore2, responseScore, overallScore>>

RotP1 ==
    /\ fn = "rot" /\ pc = "p1"
    /\ rotP1' = <<calculateRotScoreP1(days), calculateRotScoreP1(days2)>>
    /\ pc' = "done"
    /\ UNCHANGED <<rest, inputs, rotS, rotP0, healthScore, profileScore, photoScore,
                   photoScore2, responseScore, overallScore>>

Health ==
    /\ fn = "health" /\ pc = "call"
    /\ healthScore' = calculateReviewHealthScore(days, totalReviews, Dec(rating10, 10))
    /\ pc' = "done"
    /\ UNCHANGED <<rest, inputs, rotS, rotP0, rotP1, profileScore, photoScore,
                   photoScore2, responseScore, overallScore>>

Profile ==
    /\ fn = "profile" /\ pc = "call"
    /\ profileScore' = calculateProfileScore(placeData)
    /\ pc' = "done"
    /\ UNCHANGED <<rest, inputs, rotS, rotP0, rotP1, healthScore, photoScore,
                   photoScore2, responseScore, overallScore>>

Photo ==
    /\ fn = "photo" /\ pc = "call"
    /\ photoScore' = calculatePhotoScore(photoCount)
    /\ photoScore2' = calculatePhotoScore(photoCount2)
    /\ pc' = "done"
    /\ UNCHANGED <<rest, inputs, rotS, rotP0, rotP1, healthScore, profileScore,
                   responseScore, overallScore>>

Response ==
    /\ fn = "response" /\ pc = "call"
    /\ responseScore' = calculateResponseScore(reviews)
    /\ pc' = "done"
    /\ UNCHANGED <<rest, inputs, rotS, rotP0, rotP1, healthScore, profileScore,
                   photoScore, photoScore2, overallScore>>

\* full-audit, step 5: all scores of the snapshot and the weighted average
AuditScores ==
    /\ fn = "audit" /\ pc = "call"
    /\ LET rotScore == calculateRotScoreP1(days)
           rh == calculateReviewHealthScore(days, totalReviews, Dec(rating10, 10))
           pr == calculateProfileScore(placeData)
           ph == calculatePhotoScore(photoCount)
           rs == calculateResponseScore(reviews)
       IN  /\ rotP1' = <<rotScore, rotScore>>
           /\ healthScore' = rh
           /\ profileScore' = pr
           /\ photoScore' = ph
           /\ photoScore2' = ph
           /\ responseScore' = rs
           /\ overallScore' = overallScoreOf(rh, pr.score, ph.score, rs.score)
           /\ criticalIssues' = slice(allIssues(pr, ph, rs), TopEntries)
           /\ topRecommendations' =
                  slice(allRecommendations(days, pr, ph, rs), TopEntries)
    /\ pc' = "done"
    /\ UNCHANGED <<labelVars, parseVars, handlerVars, inputs, rotS, rotP0>>

NextRot == RotServer \/ RotP0 \/ RotP1
NextHealth == Health
NextScorers == Profile \/ Photo \/ Response
NextAudit == AuditScores
SpecRot == InitRot /\ [][NextRot]_vars
SpecHealth == InitHealth /\ [][NextHealth]_vars
SpecScorers == InitScorers /\ [][NextScorers]_vars
SpecAudit == InitAudit /\ [][NextAudit]_vars

(***************************************************************************)
(* Label lookups: a score through getStatus and getStatusFromScore, and a  *)
(* day count through the calculateRotScore of server.js.                   *)
(***************************************************************************)
ScoringIdle ==
    /\ pc = "idle"
    /\ days2 = 0 /\ totalReviews = 0 /\ rating10 = 0
    /\ placeData = EmptyPlace
    /\ photoCount = 0 /\ photoCount2 = 0 /\ reviews = <<>>
    /\ NoResults

LabelDays == (0..MaxDays) \cup {NoReviewDays, Sentinel}

\* every score next to two day counts, and every day count next to one score
LabelCalls ==
    ((0..MaxScore) \X {14, 21}) \cup ({30} \X LabelDays)

InitLabels ==
    /\ fn = "labels" /\ ScoringIdle /\ ParseIdle /\ HandlerIdle
    /\ \E call \in LabelCalls : score = call[1] /\ days = call[2]
    /\ labels = NoLabels

scoringVars == <<fn, pc, days, days2, totalReviews, rating10, placeData,
                 photoCount, photoCount2, reviews,
                 rotS, rotP0, rotP1, healthScore, profileScore,
                 photoScore, photoScore2, responseScore, overallScore, reportVars>>

GetStatus ==
    /\ fn = "labels" /\ labels.p0 = NoLabel
    /\ labels' = [labels EXCEPT !.p0 = getStatus(score)]
    /\ UNCHANGED <<scoringVars, score, parseVars, handlerVars>>

GetStatusFromScore ==
    /\ fn = "labels" /\ labels.p1 = NoLabel
    /\ labels' = [labels EXCEPT !.p1 = getStatusFromScore(score)]
    /\ UNCHANGED <<scoringVars, score, parseVars, handlerVars>>

ServerResult ==
    /\ fn = "labels" /\ labels.server = NoLabel
    /\ labels' = [labels EXCEPT !.server = calculateRotScoreServerResult(days)]
    /\ UNCHANGED <<scoringVars, score, parseVars, handlerVars>>

NextLabels == GetStatus \/ GetStatusFromScore \/ ServerResult
SpecLabels == InitLabels /\ [][NextLabels]_vars

(***************************************************************************)
(* Calls of parseRelativeDate on relative-date strings made of words.      *)
(***************************************************************************)
MaxWords == 3

Tokens ==
    {<<"3">>, <<"1", "2">>, <<"a">>, <<"a", "g", "o">>,
     <<"D", "a", "y">>, <<"d", "a", "y", "s">>, <<"w", "e", "e", "k", "s">>,
     <<"m", "o", "n", "t", "h">>, <<"Y", "e", "a", "r", "s">>,
     <<"h", "o", "u", "r">>, <<"m", "i", "n", "u", "t", "e">>,
     <<"s", "e", "c", "o", "n", "d", "s">>}

\* the strings of exactly n words, separated by single spaces
RECURSIVE Sentences(_)
Sentences(n) ==
    IF n = 0 THEN {<<>>}
    ELSE IF n = 1 THEN Tokens
    ELSE {sentence \o <<" ">> \o word : sentence \in Sentences(n - 1), word \in Tokens}

RelativeStrs == {Absent} \cup UNION {Sentences(n) : n \in 0..MaxWords}

\* 2024-03-31 12:00, 2024-02-29 00:00 and 2025-01-15 23:59:59.999
Nows ==
    {[day |-> DaysFromCivil(2024, 2, 31), ms |-> 43200000],
     [day |-> DaysFromCivil(2024, 1, 29), ms |-> 0],
     [day |-> DaysFromCivil(2025, 0, 15), ms |-> 86399999]}

InitParse ==
    /\ fn = "parse" /\ days = 0 /\ ScoringIdle /\ LabelIdle /\ HandlerIdle
    /\ relativeStr \in RelativeStrs /\ now \in Nows
    /\ parsed = NotParsed

ParseRelativeDate ==
    /\ fn = "parse" /\ parsed = NotParsed
    /\ parsed' = parseRelativeDate(relativeStr, now)
    /\ UNCHANGED <<scoringVars, labelVars, handlerVars, relativeStr, now>>

NextParse == ParseRelativeDate
SpecParse == InitParse /\ [][NextParse]_vars

(***************************************************************************)
(* Request handlers.  A handler runs atomically from one await to the      *)
(* next: Start validates the request and issues the first provider call,   *)
(* each ...Returns action resumes the handler with the outcome of the      *)
(* awaited provider call, and the sink calls settle on their own.          *)
(***************************************************************************)
LeadHandlers ==
    {[variant |-> "server", endpoint |-> "calculate-rot"],
     [variant |-> "p0", endpoint |-> "calculate-rot"],
     [variant |-> "p1", endpoint |-> "calculate-rot"],
     [variant |-> "p1", endpoint |-> "full-audit"],
     [variant |-> "p1", endpoint |-> "quick-audit"]}
\* the GET routes: the health check and the test routes, which server.js
\* registers unless NODE_ENV is "production"
LookupTests == {"test-google", "test-audit"}
SinkTests == {"test-zapier", "test-slack"}
GetEndpoints == {"health"} \cup LookupTests \cup SinkTests
GetHandlers ==
    {[variant |-> v, endpoint |-> e] :
        v \in {"server", "p0"}, e \in {"health", "test-google"} \cup SinkTests}
    \cup {[variant |-> "p1", endpoint |-> e] : e \in {"health", "test-audit"}}
Handlers == LeadHandlers \cup GetHandlers

\* part_000: the text queries findBusiness tries in turn
SearchQueries == 3
\* Slack alert at or above this rot score (calculate-rot)
HotLeadThreshold == 60
\* Slack alert below this overall score (full-audit)
PoorScore == 50

\* the clock of the request: 2024-03-31 12:00
HandlerNow == [day |-> DaysFromCivil(2024, 2, 31), ms |-> 43200000]

\* Google Places details (server.js, part_000): the reviews returned, with a
\* publishTime in the past, later than the clock of the request, or missing
PublishLists ==
    {<<>>, <<NoTime>>, <<14>>, <<0 - 1>>, <<65, 14>>, <<14, NoTime>>,
     <<NoTime, 65>>}
GooglePlaces ==
    {[NoPlace EXCEPT !.found = TRUE, !.totalReviews = 80, !.rating10 = 48,
                     !.publish = l] : l \in PublishLists}

\* SerpAPI local results (part_001), with and without data_id and place_id
SerpPlaces ==
    {[NoPlace EXCEPT !.found = TRUE, !.dataId = TRUE, !.placeId = TRUE,
                     !.totalReviews = 80, !.rating10 = 48, !.profile = FullPlace],
     [NoPlace EXCEPT !.found = TRUE, !.dataId = TRUE,
                     !.totalReviews = 3, !.rating10 = 33, !.photos = 60,
                     !.profile = [EmptyPlace EXCEPT !.title = TRUE]],
     [NoPlace EXCEPT !.found = TRUE, !.placeId = TRUE,
                     !.totalReviews = 3, !.rating10 = 33, !.photos = 60,
                     !.profile = [EmptyPlace EXCEPT !.title = TRUE,
                                                   !.phone = TRUE,
                                                   !.website = TRUE]],
     [NoPlace EXCEPT !.found = TRUE, !.totalReviews = 80, !.rating10 = 48]}

ThreeDaysAgo == <<"3", " ", "d", "a", "y", "s", " ", "a", "g", "o">>
TwelveWeeksAgo == <<"1", "2", " ", "w", "e", "e", "k", "s", " ", "a", "g", "o">>
Recently == <<"R", "e", "c", "e", "n", "t", "l", "y">>
\* review lists as SerpAPI returns them, newest first
SerpReviewLists ==
    {<<>>,
     <<[date |-> Absent, response |-> FALSE]>>,
     <<[date |-> <<>>, response |-> TRUE], [date |-> ThreeDaysAgo, response |-> FALSE]>>,
     <<[date |-> Recently, response |-> TRUE]>>,
     <<[date |-> ThreeDaysAgo, response |-> TRUE],
       [date |-> TwelveWeeksAgo, response |-> FALSE]>>,
     <<[date |-> TwelveWeeksAgo, response |-> TRUE],
       [date |-> TwelveWeeksAgo, response |-> TRUE]>>}
PhotoCounts == {0, 60}

\* outcomes of the provider calls
SearchOutcomes(h) ==
    {[kind |-> "fail", place |-> NoPlace], [kind |-> "empty", place |-> NoPlace]}
    \cup (IF h.variant = "p1"
          THEN {[kind |-> "found", place |-> p] : p \in SerpPlaces}
          ELSE {[kind |-> "found", place |-> NoPlace]})
\* the keys of a place that the scorers read
ProfileKeys == DOMAIN EmptyPlace
\* part_001: place_results as the details call returns them; has is the set
\* of the keys they carry
SerpDetails ==
    {[kind |-> "found", has |-> ProfileKeys,
      place |-> [NoPlace EXCEPT !.profile = FullPlace]],
     [kind |-> "found", has |-> {"title"},
      place |-> [NoPlace EXCEPT !.profile = [EmptyPlace EXCEPT !.title = TRUE]]],
     [kind |-> "found", has |-> {"title", "address", "photos"},
      place |-> [NoPlace EXCEPT !.photos = 5,
                                !.profile = [EmptyPlace EXCEPT
                                                !.title = TRUE,
                                                !.address = "12 Main St"]]],
     [kind |-> "found", has |-> {"title", "hours", "service_options"},
      place |-> [NoPlace EXCEPT !.profile = [EmptyPlace EXCEPT !.title = TRUE]]]}
DetailsOutcomes(h) ==
    IF h.variant = "p1"
    THEN {[kind |-> "fail", has |-> {}, place |-> NoPlace],
          [kind |-> "empty", has |-> {}, place |-> NoPlace]} \cup SerpDetails
    ELSE {[kind |-> "fail", has |-> {}, place |-> NoPlace]}
         \cup {[kind |-> "found", has |-> {}, place |-> p] : p \in GooglePlaces}
PlaceIdOutcomes ==
    {[kind |-> "fail", has |-> {}, place |-> NoPlace],
     [kind |-> "empty", has |-> {}, place |-> NoPlace]}
    \cup {[kind |-> "found", has |-> {}, place |-> p] : p \in GooglePlaces}
ReviewsOutcomes ==
    {[kind |-> "fail", reviews |-> <<>>]}
    \cup {[kind |-> "found", reviews |-> l] : l \in SerpReviewLists}
PhotosOutcomes ==
    {[kind |-> "fail", count |-> 0]}
    \cup {[kind |-> "found", count |-> n] : n \in PhotoCounts}

\* every provider function wraps its call in try / catch
providerFailure_Thrown(variant, svc) ==
    IF variant = "p1" /\ svc = "details" THEN "thrown" ELSE "caught"
providerFailure(variant, svc) == "caught"

\* every sink function wraps its call in try / catch, so its promise
\* resolves whether the call succeeded or failed
sinkPromise_NoCatch(ok) == IF ok THEN "resolved" ELSE "rejected"
sinkPromise(ok) == "resolved"

\* the validation at the head of each handler
missingField_NameOnly(h, r) == h.endpoint \notin GetEndpoints /\ ~r.businessName
missingField(h, r) ==
    IF h.endpoint \in GetEndpoints THEN FALSE
    ELSE IF h.endpoint = "quick-audit" THEN ~r.businessName
    ELSE ~r.email \/ ~r.businessName

\* Math.floor((later - earlier) / (1000 * 60 * 60 * 24))
daysBetween(later, earlier) ==
    later.day - earlier.day - (IF later.ms >= earlier.ms THEN 0 ELSE 1)

\* part_001: daysSinceReview from the newest review of the list
daysSinceParsed(reviewDate) ==
    IF reviewDate # NullDate THEN daysBetween(HandlerNow, reviewDate) ELSE Sentinel
newestDays_Zero(reviewList) ==
    IF Len(reviewList) > 0 /\ reviewList[1].date # Absent /\ reviewList[1].date # <<>>
    THEN daysSinceParsed(parseRelativeDate(reviewList[1].date, HandlerNow))
    ELSE 0
newestDays(reviewList) ==
    IF Len(reviewList) > 0 /\ reviewList[1].date # Absent /\ reviewList[1].date # <<>>
    THEN daysSinceParsed(parseRelativeDate(reviewList[1].date, HandlerNow))
    ELSE Sentinel

\* the comparisons of JavaScript are false on NaN
jsLess(a, b) == a # NaN /\ b # NaN /\ a < b
jsAtLeast(a, b) == a # NaN /\ b # NaN /\ a >= b

\* the most recent of the dated reviews
mostRecent(times) ==
    CHOOSE d \in {times[i] : i \in 1..Len(times)} :
        \A i \in 1..Len(times) : d <= times[i]
isDated(t) == t # NoTime
\* server.js: reviews are filtered on publishTime, then sorted newest first,
\* in an array of their own
newestServer(times) ==
    IF SelectSeq(times, isDated) = <<>> THEN NoDated
    ELSE mostRecent(SelectSeq(times, isDated))
\* part_000: place.reviews.sort(...) sorts the array in place, newest
\* first, with a comparator that gives NaN on a review without
\* publishTime; the order is then implementation-defined
newerFirst(a, b) == a <= b
sortedP0(times) ==
    IF \A i \in 1..Len(times) : isDated(times[i])
    THEN {SortSeq(times, newerFirst)}
    ELSE {[i \in 1..Len(times) |-> times[f[i]]] :
             f \in Permutations(1..Len(times))}
\* part_000: the publishTime of sortedReviews[0]
newestP0(sorted) ==
    IF sorted = <<>> THEN NoDated
    ELSE IF isDated(sorted[1]) THEN sorted[1] ELSE NaN
\* the reviews array of the place once the handler has taken the newest
\* review; test/google of part_000 does not read the reviews
reviewsAfter(h, times) ==
    IF h.variant = "p0" /\ h.endpoint = "calculate-rot" THEN sortedP0(times)
    ELSE {times}
newestOf(h, times) ==
    IF h.variant = "server" THEN newestServer(times)
    ELSE IF h.variant = "p0" /\ h.endpoint = "calculate-rot" THEN newestP0(times)
    ELSE NoDated

\* server.js, part_000: daysSinceReview from the publish times
googleDays(variant, p) ==
    IF p.reviewDays = NoDated
    THEN (IF variant = "server" THEN NoReviewDays ELSE Sentinel)
    ELSE p.reviewDays

BadRequest == [NoResp EXCEPT !.status = 400]
ServerError == [NoResp EXCEPT !.status = 500]
\* the body of server.js has success: false on calculate-rot and no success
\* field on test/google
NotFoundResp(h) ==
    [NoResp EXCEPT !.status = 200, !.success = (h.variant # "server"),
                   !.found = "false"]
\* the health check, and a test route of a sink: success is what the sink
\* function returned (server.js), or true after the post (part_000)
HealthResp == [NoResp EXCEPT !.status = 200]
SinkTestResp(ok) == [NoResp EXCEPT !.status = 200, !.success = ok]
FoundResp(d, rot, sc, lab) ==
    [status |-> 200, success |-> TRUE, found |-> "true", daysSinceReview |-> d,
     rotScore |-> rot, score |-> sc, label |-> lab]

\* photos.length || placeDetails.photos?.length || 0
photoCountOf(p, loc) == IF loc.photos # 0 THEN loc.photos ELSE p.photos
fullAuditScore(d, p, loc) ==
    overallScoreOf(calculateReviewHealthScore(d, p.totalReviews, Dec(p.rating10, 10)),
                   calculateProfileScore(p.profile).score,
                   calculatePhotoScore(photoCountOf(p, loc)).score,
                   calculateResponseScore(loc.reviews).score)
serverResp(d, r) == FoundResp(d, r.rotScore, NoScore, r.status)
p0Resp(d, rot) == FoundResp(d, rot, NoScore, getStatus(rot).status)
p1Resp(d, rot) == FoundResp(d, rot, NoScore, getStatusFromScore(100 - rot).status)
auditResp(d, rot, overall) ==
    FoundResp(d, rot, overall, getStatusFromScore(overall).status)
quickResp(d, health) ==
    FoundResp(d, NoScore, health, getStatusFromScore(health).status)

\* the result of a handler for a business that was found
p1Scored(endpoint, p, loc, d, rot) ==
    IF endpoint = "calculate-rot" THEN p1Resp(d, rot)
    ELSE IF endpoint = "full-audit" THEN auditResp(d, rot, fullAuditScore(d, p, loc))
    ELSE quickResp(d, calculateReviewHealthScore(d, p.totalReviews,
                                                 Dec(p.rating10, 10)))
p1Result(endpoint, p, loc, d) ==
    p1Scored(endpoint, p, loc, d, calculateRotScoreP1(d))
\* part_000 on NaN: every band test is false, Math.round(NaN) is NaN, and
\* getStatus falls through to its last label
p0RespNaN == FoundResp(NaN, NaN, NoScore, "Critical Decay")
googleResult(variant, d) ==
    IF variant = "server" THEN serverResp(d, calculateRotScoreServerResult(d))
    ELSE IF d = NaN THEN p0RespNaN
    ELSE p0Resp(d, calculateRotScoreP0(d))
\* test/google and test/audit: server.js answers with what
\* getBusinessData returned, part_000 and part_001 with fields of the place
lookupTestResp(h, p) ==
    [NoResp EXCEPT !.status = 200, !.success = (h.variant # "server"),
                   !.found = "true",
                   !.daysSinceReview = IF h.variant = "server"
                                       THEN googleDays("server", p) ELSE NoScore]
resultOf(h, p, loc) ==
    IF h.endpoint \in LookupTests THEN lookupTestResp(h, p)
    ELSE IF h.variant = "p1"
    THEN p1Result(h.endpoint, p, loc, newestDays(loc.reviews))
    ELSE googleResult(h.variant, googleDays(h.variant, p))

\* the sink calls a handler fires, in order; a sink that is not configured
\* returns before it calls out
Opt(cond, sink) == IF cond THEN <<sink>> ELSE <<>>
\* calculate-rot: part_001 tests rotScore >= 60 before it calls
\* sendSlackAlert; in server.js and part_000 sendSlackAlert returns early
\* when rotScore < threshold
slackDue(h, c, res) ==
    /\ c.slack
    /\ IF h.variant = "p1" THEN jsAtLeast(res.rotScore, HotLeadThreshold)
       ELSE ~jsLess(res.rotScore, HotLeadThreshold)
notFoundSinks_StoreOnly(h, c) ==
    IF h.endpoint \in {"quick-audit"} \cup LookupTests THEN <<>>
    ELSE IF h.variant = "p1" THEN Opt(c.airtable, "airtable")
    ELSE Opt(c.airtable, "airtable") \o Opt(c.zapier, "zapier")
notFoundSinks(h, c) ==
    IF h.endpoint \in {"quick-audit"} \cup LookupTests THEN <<>>
    ELSE IF h.endpoint = "full-audit" THEN Opt(c.airtable, "airtable")
    ELSE Opt(c.airtable, "airtable") \o Opt(c.zapier, "zapier")
foundSinks(h, r, c, res) ==
    IF h.endpoint \in LookupTests THEN <<>>
    ELSE IF h.endpoint = "quick-audit" THEN Opt(c.airtable /\ r.email, "airtable")
    ELSE IF h.endpoint = "full-audit"
    THEN Opt(c.airtable, "airtable") \o Opt(c.airtable, "airtable")
         \o Opt(c.zapier, "zapier")
         \o Opt(c.slack /\ res.score < PoorScore, "slack")
    ELSE Opt(c.airtable, "airtable") \o Opt(c.zapier, "zapier")
         \o Opt(slackDue(h, c, res), "slack")
\* a property the data does not carry, and the value null
Undefined == 0 - 5000
Null == 0 - 6000
\* server.js: the rotScore of the fallback lead
FallbackRotScore == 100
\* what a sink call carries of the lead
NoLead == [email |-> FALSE, businessName |-> FALSE, rotScore |-> Undefined,
           status |-> "undefined", overallScore |-> Undefined,
           overallStatus |-> "undefined", isHotLead |-> "undefined"]

\* the data a handler passes to a sink function on its not-found path
notFoundLead(h, r, sink) ==
    LET lead == [NoLead EXCEPT !.email = r.email, !.businessName = r.businessName]
    IN  IF h.variant = "server"
        THEN [lead EXCEPT !.rotScore = FallbackRotScore, !.status = "Unknown"]
        ELSE IF h.variant = "p1" /\ sink = "airtable"
        THEN [lead EXCEPT !.status = "Not Found"]
        ELSE [lead EXCEPT !.rotScore = Null, !.status = "Not Found"]

\* part_001: the data of the nth call of a sink for a found business
leadP1(endpoint, lead, res, sink, nth) ==
    IF endpoint = "calculate-rot"
    THEN [lead EXCEPT !.rotScore = res.rotScore, !.status = res.label]
    ELSE IF endpoint = "quick-audit"
    THEN [lead EXCEPT !.rotScore = calculateRotScoreP1(res.daysSinceReview),
                      !.status = res.label]
    ELSE IF sink = "airtable" /\ nth = 1
    THEN [lead EXCEPT !.overallScore = res.score, !.status = res.label]
    ELSE IF sink = "airtable"
    THEN [lead EXCEPT !.rotScore = res.rotScore, !.status = res.label]
    ELSE [lead EXCEPT !.overallScore = res.score, !.overallStatus = res.label]

\* the data a handler passes to a sink function for a found business;
\* businessName is the title of the place or the name of the request
foundLead(h, r, res, sink, nth) ==
    LET lead == [NoLead EXCEPT !.email = r.email, !.businessName = TRUE]
    IN  IF h.variant = "p1" THEN leadP1(h.endpoint, lead, res, sink, nth)
        ELSE [lead EXCEPT !.rotScore = res.rotScore, !.status = res.label]

\* what the sink function sends: triggerZapier of server.js adds
\* is_hot_lead and the hot_lead tag, the others forward the data
payloadOf(h, sink, lead) ==
    IF h.variant = "server" /\ sink = "zapier"
    THEN [lead EXCEPT !.isHotLead =
              IF jsAtLeast(lead.rotScore, HotLeadThreshold) THEN "true" ELSE "false"]
    ELSE lead

\* the number of calls of the sink among the first i
nthCall(names, i) == Cardinality({j \in 1..i : names[j] = names[i]})

\* the rotScore of the fixed leads of the test routes
TestRotScore == 75
TestRotScoreP0 == 50
\* the fixed lead of a test route of a sink; the Slack test of part_000
\* posts a text only
testLead(h, sink) ==
    LET lead == [NoLead EXCEPT !.email = TRUE, !.businessName = TRUE]
    IN  IF h.variant = "server"
        THEN [lead EXCEPT !.rotScore = TestRotScore, !.status = "Rot Zone"]
        ELSE IF sink = "zapier" THEN [lead EXCEPT !.rotScore = TestRotScoreP0]
        ELSE NoLead
\* the sink of a test route
testedSink(h) == IF h.endpoint = "test-zapier" THEN "zapier" ELSE "slack"
\* the test routes of part_000 post to the webhook themselves, outside the
\* sink functions: the promise they await rejects when the post fails
postPromise(h, ok) ==
    IF h.variant = "p0" /\ h.endpoint \in SinkTests
    THEN (IF ok THEN "resolved" ELSE "rejected")
    ELSE sinkPromise(ok)
\* the response a handler sends after the sink calls it awaited
awaitedResp(h, fired) ==
    IF h.endpoint \in SinkTests THEN SinkTestResp(fired[1].state = "ok")
    ELSE NotFoundResp(h)

Fired(names, h, r, res) ==
    [i \in 1..Len(names) |->
        [sink |-> names[i], state |-> "pending", promise |-> "pending",
         payload |-> payloadOf(h, names[i],
                               IF res.found = "true"
                               THEN foundLead(h, r, res, names[i], nthCall(names, i))
                               ELSE notFoundLead(h, r, names[i]))]]

\* server.js awaits Promise.all of the sinks on its not-found path only
awaitsSinks(h, path) ==
    h.variant = "server" /\ h.endpoint = "calculate-rot" /\ path = "notfound"

\* the provider call a part_001 handler awaits next, "score" for none
afterDetails(h, p) == IF p.dataId THEN "reviews" ELSE "score"
afterSearch(h, p) ==
    IF h.endpoint = "test-audit" THEN "score"
    ELSE IF h.endpoint = "full-audit" /\ p.placeId THEN "details"
    ELSE afterDetails(h, p)
afterReviews(h) == IF h.endpoint = "full-audit" THEN "photos" ELSE "score"
\* part_000: the next text query after one that gave nothing
afterQuery(loc) == IF loc.query < SearchQueries THEN "search" ELSE "notfound"
nextQuery(loc) ==
    IF loc.query < SearchQueries THEN [loc EXCEPT !.query = @ + 1] ELSE loc
caught(variant, svc, stage) ==
    IF providerFailure(variant, svc) = "thrown" THEN "thrown" ELSE stage

InitHandlers ==
    /\ fn = "request" /\ days = 0 /\ ScoringIdle /\ LabelIdle /\ ParseIdle
    /\ handler \in Handlers
    /\ req \in [email : BOOLEAN, businessName : BOOLEAN, placeId : BOOLEAN]
    /\ req.placeId => handler.variant = "p0"
    /\ handler \in GetHandlers => req = NoReq
    /\ cfg \in [airtable : BOOLEAN, zapier : BOOLEAN, slack : BOOLEAN]
    /\ hpc = "start"
    /\ calls = <<>> /\ place = NoPlace /\ local = NoLocal
    /\ sinks = <<>> /\ resp = NoResp

notRequest == <<scoringVars, labelVars, parseVars>>

\* the handler reaches its not-found branch: fire the sinks and respond,
\* after the sinks have settled where the handler awaits them
NotFound ==
    /\ sinks' = Fired(notFoundSinks(handler, cfg), handler, req,
                      NotFoundResp(handler))
    /\ IF awaitsSinks(handler, "notfound")
       THEN hpc' = "awaitSinks" /\ resp' = resp
       ELSE hpc' = "done" /\ resp' = NotFoundResp(handler)

\* the handler has all its data: score, fire the sinks and respond
Found(res) ==
    /\ sinks' = Fired(foundSinks(handler, req, cfg, res), handler, req, res)
    /\ resp' = res
    /\ hpc' = "done"

\* an exception reaches the catch of the handler
Thrown == hpc' = "done" /\ resp' = ServerError /\ sinks' = sinks

Proceed(stage, p, loc) ==
    /\ place' = p /\ local' = loc
    /\ IF stage = "notfound" THEN NotFound
       ELSE IF stage = "score" THEN Found(resultOf(handler, p, loc))
       ELSE IF stage = "thrown" THEN Thrown
       ELSE hpc' = stage /\ UNCHANGED <<sinks, resp>>

\* validation, then the first provider call
Start ==
    /\ hpc = "start"
    /\ handler.endpoint \notin {"health"} \cup SinkTests
    /\ IF missingField(handler, req)
       THEN /\ resp' = BadRequest /\ hpc' = "done" /\ local' = local
       ELSE /\ resp' = resp /\ local' = [local EXCEPT !.query = 1]
            /\ hpc' = IF handler.variant = "p0" /\ req.placeId
                      THEN "placeIdLookup" ELSE "search"
    /\ UNCHANGED <<notRequest, handler, req, cfg, calls, place, sinks>>

\* GET /api/health only answers
HealthCheck ==
    /\ hpc = "start" /\ handler.endpoint = "health"
    /\ resp' = HealthResp /\ hpc' = "done"
    /\ UNCHANGED <<notRequest, handler, req, cfg, calls, place, local, sinks>>

\* GET /api/test/zapier and /api/test/slack: call the sink with the fixed
\* lead and await it; without the webhook configured, answer at once
SinkTest ==
    /\ hpc = "start" /\ handler.endpoint \in SinkTests
    /\ IF cfg[testedSink(handler)]
       THEN /\ sinks' = <<[sink |-> testedSink(handler), state |-> "pending",
                           promise |-> "pending",
                           payload |-> payloadOf(handler, testedSink(handler),
                                                 testLead(handler,
                                                          testedSink(handler)))]>>
            /\ hpc' = "awaitSinks" /\ resp' = resp
       ELSE /\ sinks' = sinks /\ hpc' = "done" /\ resp' = SinkTestResp(FALSE)
    /\ UNCHANGED <<notRequest, handler, req, cfg, calls, place, local>>

searchStage(h, loc, out) ==
    IF out.kind = "fail" /\ providerFailure(h.variant, "search") = "thrown"
    THEN "thrown"
    ELSE IF out.kind = "found"
    THEN (IF h.variant = "p1" THEN afterSearch(h, out.place) ELSE "details")
    ELSE IF h.variant = "p0" THEN afterQuery(loc)
    ELSE "notfound"

\* the text search returns
SearchReturns ==
    /\ hpc = "search"
    /\ \E out \in SearchOutcomes(handler) :
          /\ calls' = Append(calls, [svc |-> "search", ok |-> out.kind # "fail"])
          /\ Proceed(searchStage(handler, local, out),
                     IF out.kind = "found" THEN out.place ELSE place,
                     IF handler.variant = "p0" /\ out.kind # "found"
                     THEN nextQuery(local) ELSE local)
    /\ UNCHANGED <<notRequest, handler, req, cfg>>

\* the place after the details call; after is the reviews array as the
\* handler leaves it
\* part_001: { ...place, ...details }: a key the details carry takes
\* their value, also a null one, and every other key keeps the value of
\* the search result; hours and operating_hours, service_options and
\* extensions are keys of their own
mergeDetails(p, d, has) ==
    [p EXCEPT !.profile = [k \in ProfileKeys |->
                              IF k \in has THEN d.profile[k] ELSE p.profile[k]],
              !.photos = IF "photos" \in has THEN d.photos ELSE p.photos]
detailsPlace(h, p, out, after) ==
    IF out.kind # "found" THEN p
    ELSE IF h.variant = "p1" THEN mergeDetails(p, out.place, out.has)
    ELSE [out.place EXCEPT !.publish = after,
                           !.reviewDays = newestOf(h, after)]

\* part_000: the lookup by the placeId of the request returns
PlaceIdLookupReturns ==
    /\ hpc = "placeIdLookup"
    /\ \E out \in PlaceIdOutcomes :
       \E after \in reviewsAfter(handler, out.place.publish) :
          /\ calls' = Append(calls, [svc |-> "details", ok |-> out.kind # "fail"])
          /\ Proceed(IF out.kind = "found" THEN "score"
                     ELSE caught(handler.variant, "details", "search"),
                     detailsPlace(handler, place, out, after),
                     local)
    /\ UNCHANGED <<notRequest, handler, req, cfg>>

detailsStage(h, p, loc, out) ==
    IF h.variant = "p1"
    THEN (IF out.kind = "fail" THEN caught("p1", "details", afterDetails(h, p))
          ELSE afterDetails(h, p))
    ELSE IF out.kind = "found" THEN "score"
    ELSE IF h.variant = "p0" THEN caught("p0", "details", afterQuery(loc))
    ELSE caught("server", "details", "notfound")

\* the place details return
DetailsReturns ==
    /\ hpc = "details"
    /\ \E out \in DetailsOutcomes(handler) :
       \E after \in reviewsAfter(handler, out.place.publish) :
          /\ calls' = Append(calls, [svc |-> "details", ok |-> out.kind # "fail"])
          /\ Proceed(detailsStage(handler, place, local, out),
                     detailsPlace(handler, place, out, after),
                     IF handler.variant = "p0" /\ out.kind # "found"
                     THEN nextQuery(local) ELSE local)
    /\ UNCHANGED <<notRequest, handler, req, cfg>>

\* part_001: the reviews return, [] after a failure
ReviewsReturns ==
    /\ hpc = "reviews"
    /\ \E out \in ReviewsOutcomes :
          /\ calls' = Append(calls, [svc |-> "reviews", ok |-> out.kind # "fail"])
          /\ Proceed(IF out.kind = "fail"
                     THEN caught("p1", "reviews", afterReviews(handler))
                     ELSE afterReviews(handler),
                     place, [local EXCEPT !.reviews = out.reviews])
    /\ UNCHANGED <<notRequest, handler, req, cfg>>

\* part_001 full-audit: the photos return, [] after a failure
PhotosReturns ==
    /\ hpc = "photos"
    /\ \E out \in PhotosOutcomes :
          /\ calls' = Append(calls, [svc |-> "photos", ok |-> out.kind # "fail"])
          /\ Proceed(IF out.kind = "fail" THEN caught("p1", "photos", "score")
                     ELSE "score",
                     place, [local EXCEPT !.photos = out.count])
    /\ UNCHANGED <<notRequest, handler, req, cfg>>

\* a sink call succeeds or fails
SinkSettles ==
    /\ \E i \in 1..Len(sinks), ok \in BOOLEAN :
          /\ sinks[i].state = "pending"
          /\ sinks' = [sinks EXCEPT ![i].state = IF ok THEN "ok" ELSE "failed",
                                    ![i].promise = postPromise(handler, ok)]
    /\ UNCHANGED <<notRequest, handler, req, cfg, hpc, calls, place, local, resp>>

\* server.js not-found path, and the test routes of a sink: the sink calls
\* awaited have settled
SinksAwaited ==
    /\ hpc = "awaitSinks"
    /\ \A i \in 1..Len(sinks) : sinks[i].promise # "pending"
    /\ resp' = IF \E i \in 1..Len(sinks) : sinks[i].promise = "rejected"
               THEN ServerError ELSE awaitedResp(handler, sinks)
    /\ hpc' = "done"
    /\ UNCHANGED <<notRequest, handler, req, cfg, calls, place, local, sinks>>

NextHandlers ==
    \/ Start \/ HealthCheck \/ SinkTest
    \/ SearchReturns \/ PlaceIdLookupReturns \/ DetailsReturns
    \/ ReviewsReturns \/ PhotosReturns \/ SinkSettles \/ SinksAwaited
SpecHandlers == InitHandlers /\ [][NextHandlers]_vars

(***************************************************************************)
(* The whole program: any of the calls above.                              *)
(***************************************************************************)
Init == InitRot \/ InitHealth \/ InitScorers \/ InitAudit \/ InitLabels
        \/ InitParse \/ InitHandlers

Next == NextRot \/ NextHealth \/ NextScorers \/ NextAudit \/ NextLabels
        \/ NextParse \/ NextHandlers

Spec == Init /\ [][Next]_vars

(***************************************************************************)
(* Properties.  Reference values are computed in exact integer arithmetic: *)
(* RoundHalfUp(n, d) is n/d rounded to the nearest integer, halves up.     *)
(***************************************************************************)
RoundHalfUp(n, d) == (2 * n + d) \div (2 * d)

RotDone == fn = "rot" /\ pc = "done"
RotResults == {rotS, rotP0, rotP1}

\* C1: in every variant rotScore(0) = 0, rotScore(14) = 10 and
\* rotScore(d) = 100 for every d >= 100.
C1_FixedPoints ==
    RotDone => \A r \in RotResults :
                   /\ days = 0 => r[1] = 0
                   /\ days = 14 => r[1] = 10
                   /\ days >= 100 => r[1] = 100

\* C2: in every variant the rot score is non-decreasing: for 0 <= d1 <= d2
\* the score of d1 is at most the score of d2.
C2_Monotone ==
    RotDone /\ 0 <= days /\ days <= days2
        => \A r \in RotResults : r[1] <= r[2]

C2_Witness ==
    /\ RotDone /\ days = 14 /\ days2 = 15
    /\ rotS = <<9, 13>> /\ rotP0 = <<10, 13>> /\ rotP1 = <<10, 13>>

\* the five-band reference of the rot score
RefRot(d) ==
    IF d <= 14 THEN RoundHalfUp(10 * d, 14)
    ELSE IF d <= 21 THEN RoundHalfUp(10 * 7 + 20 * (d - 14), 7)
    ELSE IF d <= 56 THEN RoundHalfUp(30 * 35 + 30 * (d - 21), 35)
    ELSE IF d <= 70 THEN RoundHalfUp(60 * 14 + 20 * (d - 56), 14)
    ELSE Min(100, RoundHalfUp(80 * 30 + 20 * (d - 70), 30))

\* C3: for every d >= 0 the part_000 and part_001 copies of
\* calculateRotScore return the value of the five-band reference, and agree
\* with each other.
C3_Reference ==
    RotDone => /\ days >= 0 => /\ rotP0[1] = RefRot(days)
                               /\ rotP1[1] = RefRot(days)
                               /\ rotP0[1] = rotP1[1]
               /\ days2 >= 0 => /\ rotP0[2] = RefRot(days2)
                                /\ rotP1[2] = RefRot(days2)
                                /\ rotP0[2] = rotP1[2]

C3_Witness ==
    /\ RotDone /\ days = 57 /\ days2 = 71
    /\ rotP0 = <<61, 81>> /\ rotP1 = <<61, 81>>

\* C4: a negative daysSinceReview is treated as 0: for every d < 0 the rot
\* score is 0 in every variant.
C4_NegativeIsZero ==
    RotDone /\ days < 0 => \A r \in RotResults : r[1] = 0

AuditDone == fn = "audit" /\ pc = "done"

\* C5: for every valid snapshot the rot score, the review health score, the
\* profile, photo and response scores and the overall score of the full
\* audit each lie in 0..100.
C5_ScoresInRange ==
    AuditDone => \A v \in {rotP1[1], healthScore, profileScore.score,
                           photoScore.score, responseScore.score, overallScore} :
                     0 <= v /\ v <= 100

C5_Witness ==
    /\ AuditDone /\ days = Sentinel /\ totalReviews = 0 /\ rating10 = 0
    /\ placeData = FullPlace /\ photoCount = 0 /\ reviews = <<>>
    /\ rotP1[1] = 100 /\ healthScore = 0 /\ profileScore.score = 100
    /\ photoScore.score = 0 /\ responseScore.score = 0 /\ overallScore = 25

\* the review health formula in exact arithmetic, the rating r10 in tenths
RefHealth(d, t, r10) ==
    RoundHalfUp(4 * (100 - RefRot(d)) + 3 * Min(100, t) + 6 * r10, 10)

\* C6: calculateReviewHealthScore returns
\* round(0.4*(100 - rotScore(d)) + 0.3*min(100, totalReviews) + 0.3*(rating/5*100));
\* (0, 100, 5.0) gives 100, (999, 0, 0) gives 0, and the result does not
\* change when totalReviews grows beyond 100.
C6_HealthFormula ==
    fn = "health" /\ pc = "done"
        => /\ healthScore = RefHealth(days, totalReviews, rating10)
           /\ days = 0 /\ totalReviews = 100 /\ rating10 = 50 => healthScore = 100
           /\ days = Sentinel /\ totalReviews = 0 /\ rating10 = 0 => healthScore = 0
           /\ totalReviews > 100 => healthScore = RefHealth(days, 100, rating10)

\* C7: in full-audit overallScore equals
\* round(reviewHealth*0.35 + profile*0.25 + photo*0.20 + response*0.20) of
\* the four sub-scores computed for the request.
C7_OverallFormula ==
    AuditDone => overallScore =
                     RoundHalfUp(35 * healthScore + 25 * profileScore.score
                                 + 20 * photoScore.score + 20 * responseScore.score,
                                 100)

ProfileDone == fn = "profile" /\ pc = "done"
RealAddress(p) == p.address # "" /\ p.address # ServiceArea

\* C8: calculateProfileScore returns round(earned/total_possible*100) over
\* the budget name 10, address 10, phone 15, website 15, hours 15,
\* description 10 (5 when present but not longer than 50 characters),
\* categories 15 (full at >= 3, partial at 1-2), service attributes 10;
\* total_possible is 100, and a profile with every field populated scores
\* exactly 100.
C8_ProfileBudget ==
    ProfileDone =>
        LET p     == placeData
            fixed == (IF p.title THEN 10 ELSE 0) + (IF p.phone THEN 15 ELSE 0)
                     + (IF p.website THEN 15 ELSE 0) + (IF p.hours \/ p.operating_hours THEN 15 ELSE 0)
                     + (IF p.description > 50 THEN 10
                        ELSE IF p.description > 0 THEN 5 ELSE 0)
                     + (IF p.service_options \/ p.extensions THEN 10 ELSE 0)
            all   == /\ p.title /\ RealAddress(p) /\ p.phone /\ p.website
                     /\ (p.hours \/ p.operating_hours) /\ p.description > 50
                     /\ p.types >= 3 /\ (p.service_options \/ p.extensions)
        IN  /\ \E a \in {0, 5, 10} : \E c \in 0..15 :
                  /\ RealAddress(p) => a = 10
                  /\ p.types >= 3 => c = 15
                  /\ p.types = 0 => c = 0
                  /\ p.types \in 1..2 => 0 < c /\ c < 15
                  /\ profileScore.score = RoundHalfUp(100 * (fixed + a + c), 100)
            /\ all => profileScore.score = 100

C8_Witness ==
    /\ ProfileDone /\ placeData = [FullPlace EXCEPT !.description = 50, !.types = 2]
    /\ profileScore.score = 88

\* C9: on a profile with no fields set the address item earns its partial
\* credit of 5 only if the address is marked as service area; with the
\* address absent the profile earns no address points and scores 0.
C9_EmptyProfile ==
    ProfileDone
        => /\ placeData = [EmptyPlace EXCEPT !.address = ServiceArea]
                => profileScore.score = 5
           /\ placeData = EmptyPlace => profileScore.score = 0

PhotoDone == fn = "photo" /\ pc = "done"
PhotoCalls == {<<photoCount, photoScore>>, <<photoCount2, photoScore2>>}
PhotoTier(n) == IF n >= 50 THEN 100 ELSE IF n >= 25 THEN 75
                ELSE IF n >= 10 THEN 50 ELSE IF n >= 1 THEN 25 ELSE 0

\* the step function, the issues, the count and the monotonicity of C10
PhotoSteps ==
    /\ \A c \in PhotoCalls :
          /\ c[2].score = PhotoTier(c[1])
          /\ c[1] < 25 <=> Len(c[2].issues) >= 1
          /\ c[1] >= 25 /\ c[1] < 50 => Len(c[2].recommendations) >= 1
          /\ c[2].count = c[1]
    /\ photoScore.score <= photoScore2.score

\* C10 as stated: calculatePhotoScore is the step function 0 / 25 / 50 / 75 /
\* 100 of photoCount with an issue below 25 photos, the count is returned,
\* the score is non-decreasing, and every tier emits a tier-specific
\* recommendation string.
C10_EveryTierRecommends ==
    PhotoDone => /\ PhotoSteps
                 /\ \A c \in PhotoCalls : Len(c[2].recommendations) >= 1
                 /\ photoScore.score # photoScore2.score
                        => photoScore.recommendations # photoScore2.recommendations

\* C10 as amended: the same, with exactly one tier-specific recommendation
\* string in every tier below 50 photos and none from 50 photos on.
C10_PhotoSteps ==
    PhotoDone => /\ PhotoSteps
                 /\ \A c \in PhotoCalls :
                        Len(c[2].recommendations) = (IF c[1] < 50 THEN 1 ELSE 0)
                 /\ photoScore.score # photoScore2.score
                        => photoScore.recommendations # photoScore2.recommendations

C10_Witness ==
    /\ PhotoDone /\ photoCount = 49 /\ photoCount2 = 50
    /\ photoScore.score = 75 /\ photoScore2.score = 100
    /\ photoScore.recommendations = <<"Add 1 more photos to reach optimal level">>
    /\ photoScore2.recommendations = <<>>

ResponseDone == fn = "response" /\ pc = "done"
respondedCount == Cardinality({i \in 1..Len(reviews) : reviews[i].response})

\* C11: calculateResponseScore returns score 0 and responseRate 0 with
\* exactly one issue and one recommendation for an empty review list;
\* otherwise responseRate is respondedCount / total * 100 rounded half up,
\* score = responseRate, an issue is emitted iff responseRate < 50, a
\* recommendation without an issue when 50 <= responseRate < 100, and
\* neither at responseRate = 100.
C11_ResponseContract ==
    ResponseDone =>
        IF Len(reviews) = 0
        THEN /\ responseScore.score = 0 /\ responseScore.responseRate = 0
             /\ Len(responseScore.issues) = 1
             /\ Len(responseScore.recommendations) = 1
        ELSE LET rate == responseScore.responseRate
             IN  /\ rate = RoundHalfUp(100 * respondedCount, Len(reviews))
                 /\ responseScore.score = rate
                 /\ Len(responseScore.issues) = (IF rate < 50 THEN 1 ELSE 0)
                 /\ rate >= 50 /\ rate < 100
                        => Len(responseScore.recommendations) = 1
                 /\ rate = 100 => responseScore.recommendations = <<>>

LabelsDone ==
    /\ fn = "labels"
    /\ labels.p0 # NoLabel /\ labels.p1 # NoLabel /\ labels.server # NoLabel

\* the stated thresholds, as tables of <<lowest score, highest score, label>>
RotLabelTable ==
    {<<0, 10, "Healthy Heartbeat", "low">>, <<11, 30, "Early Decay", "medium">>,
     <<31, 60, "Freshness Failing", "high">>, <<61, 80, "Rot Zone", "critical">>,
     <<81, 100, "Critical Decay", "critical">>}
HealthLabelTable ==
    {<<90, 100, "Excellent">>, <<70, 89, "Good">>, <<50, 69, "Fair">>,
     <<30, 49, "Poor">>, <<0, 29, "Critical">>}
InRow(s, row) == row[1] <= s /\ s <= row[2]

\* C12: both label lookups are total on the scores 0..100 and follow the
\* stated thresholds; the status and urgency that the calculateRotScore of
\* server.js returns for a day count d >= 0 are the rot-oriented lookup of
\* the rotScore it returns.
C12_LabelLookups ==
    LabelsDone =>
        /\ \E row \in RotLabelTable :
              /\ InRow(score, row)
              /\ labels.p0 = [status |-> row[3], urgency |-> row[4]]
        /\ \E row \in HealthLabelTable :
              /\ InRow(score, row)
              /\ labels.p1.status = row[3]
        /\ \E row \in RotLabelTable :
              /\ InRow(labels.server.rotScore, row)
              /\ labels.server.status = row[3]
              /\ labels.server.urgency = row[4]

C12_Witness ==
    /\ LabelsDone /\ score = 30 /\ days = 21
    /\ labels.p0 = [status |-> "Early Decay", urgency |-> "medium"]
    /\ labels.p1.status = "Poor"
    /\ labels.server = [rotScore |-> 29, status |-> "Early Decay",
                        urgency |-> "medium"]

ParseDone == fn = "parse" /\ parsed # NotParsed

\* the words of a string, and what each word of the vocabulary stands for
RECURSIVE SplitWords(_)
SplitWords(str) ==
    IF str = <<>> THEN <<>>
    ELSE IF \E i \in 1..Len(str) : str[i] = " "
    THEN LET sp == CHOOSE i \in 1..Len(str) :
                      str[i] = " " /\ \A k \in 1..(i - 1) : str[k] # " "
         IN  <<SubSeq(str, 1, sp - 1)>> \o SplitWords(SubSeq(str, sp + 1, Len(str)))
    ELSE <<str>>
UnitOfWord(word) ==
    IF word \in {<<"h", "o", "u", "r">>, <<"m", "i", "n", "u", "t", "e">>,
                 <<"s", "e", "c", "o", "n", "d", "s">>}
    THEN "now"
    ELSE IF word \in {<<"D", "a", "y">>, <<"d", "a", "y", "s">>} THEN "day"
    ELSE IF word = <<"w", "e", "e", "k", "s">> THEN "week"
    ELSE IF word = <<"m", "o", "n", "t", "h">> THEN "month"
    ELSE IF word = <<"Y", "e", "a", "r", "s">> THEN "year"
    ELSE "none"
NumberOfWord(word) ==
    IF word = <<"3">> THEN 3 ELSE IF word = <<"1", "2">> THEN 12 ELSE 0 - 1
UnitsIn(words) == {UnitOfWord(words[i]) : i \in 1..Len(words)} \ {"none"}
NumbersIn(words) == {i \in 1..Len(words) : NumberOfWord(words[i]) >= 0}
QuantityIn(words) ==
    IF NumbersIn(words) = {} THEN 1
    ELSE NumberOfWord(words[CHOOSE i \in NumbersIn(words) :
                                \A j \in NumbersIn(words) : i <= j])
\* the unit that wins under the precedence now, day, week, month, year
ChosenUnit(units) ==
    IF "now" \in units THEN "now" ELSE IF "day" \in units THEN "day"
    ELSE IF "week" \in units THEN "week" ELSE IF "month" \in units THEN "month"
    ELSE IF "year" \in units THEN "year" ELSE "none"
ParsedAs(unit, n) ==
    IF unit = "none" THEN parsed = NullDate
    ELSE /\ parsed # NullDate /\ parsed.ms = now.ms
         /\ unit = "now"   => parsed.day = now.day
         /\ unit = "day"   => parsed.day = now.day - n
         /\ unit = "week"  => parsed.day = now.day - 7 * n
         /\ unit = "month" => now.day - parsed.day \in (28 * n - 3)..(31 * n)
         /\ unit = "year"  => now.day - parsed.day \in (365 * n - 1)..(366 * n)

\* C13: parseRelativeDate returns null exactly when the input is empty or
\* absent or holds no unit keyword; otherwise the unit is chosen by the
\* precedence hour/minute/second (now), day, week, month, year, the
\* quantity is the first integer of the string or 1, and day and week
\* units give exactly now minus N days and now minus 7N days.
C13_ParseRelativeDate ==
    ParseDone =>
        IF relativeStr = Absent THEN parsed = NullDate
        ELSE ParsedAs(ChosenUnit(UnitsIn(SplitWords(relativeStr))),
                      QuantityIn(SplitWords(relativeStr)))

\* "3 days ago" parsed at noon is noon three days earlier
C13_Witness ==
    /\ ParseDone
    /\ relativeStr = <<"3", " ", "d", "a", "y", "s", " ", "a", "g", "o">>
    /\ parsed = [day |-> now.day - 3, ms |-> now.ms]
    /\ now.ms = 43200000

(***************************************************************************)
(* Properties of the request handlers.                                     *)
(***************************************************************************)
HandlerDone == fn = "request" /\ hpc = "done"
\* the required fields of the endpoint are not all present
RequiredMissing ==
    /\ handler \in LeadHandlers
    /\ IF handler.endpoint = "quick-audit" THEN ~req.businessName
       ELSE ~(req.email /\ req.businessName)
\* the found business gives no usable date of a newest review
NoUsableDate ==
    \/ ~place.dataId
    \/ local.reviews = <<>>
    \/ local.reviews[1].date \in {Absent, <<>>, Recently}

\* C14: in every part_001 endpoint, when the found business has no
\* data_id, no reviews, a newest review without a date or with a date that
\* parseRelativeDate cannot parse, the handler does not throw,
\* daysSinceReview is the sentinel 999 and the rot score used is 100.
C14_SentinelOnNoDate ==
    HandlerDone /\ handler.variant = "p1" /\ handler \in LeadHandlers
        /\ place.found /\ NoUsableDate
        => /\ resp.status = 200 /\ resp.success /\ resp.found = "true"
           /\ resp.daysSinceReview = 999
           /\ calculateRotScoreP1(resp.daysSinceReview) = 100
           /\ handler.endpoint # "quick-audit" => resp.rotScore = 100

C14_Witness ==
    /\ HandlerDone /\ handler = [variant |-> "p1", endpoint |-> "full-audit"]
    /\ place.found /\ place.dataId
    /\ local.reviews = <<[date |-> Recently, response |-> TRUE]>>
    /\ resp.status = 200 /\ resp.daysSinceReview = 999 /\ resp.rotScore = 100

\* C15: a request missing a required field is answered with status 400
\* and success = false, and no provider call and no sink call is ever
\* made for it.
C15_BadRequest ==
    fn = "request" /\ RequiredMissing
        => /\ calls = <<>> /\ sinks = <<>>
           /\ hpc \in {"start", "done"}
           /\ hpc = "done" => resp.status = 400 /\ ~resp.success

C15_Witness ==
    /\ HandlerDone /\ handler = [variant |-> "p1", endpoint |-> "full-audit"]
    /\ ~req.email /\ req.businessName
    /\ resp.status = 400 /\ ~resp.success /\ calls = <<>> /\ sinks = <<>>

\* C16: in every variant and endpoint, when the business lookup yields
\* nothing the caller receives a 200 response with success = true and
\* found = false.
C16_NotFoundEnvelope ==
    HandlerDone /\ calls # <<>> /\ ~place.found
        => resp.status = 200 /\ resp.success /\ resp.found = "false"

\* C17: a failure of a provider call is never propagated: whatever
\* provider calls fail, the request ends with a not-found response or with
\* a found response, and never with a 500 response.
C17_ProviderFailureContained ==
    /\ calls # <<>> => resp.status # 500
    /\ HandlerDone /\ calls # <<>>
          => /\ resp.status = 200
             /\ resp.found = (IF place.found THEN "true" ELSE "false")

\* full-audit with the details, the reviews and the photos calls all failed
C17_Witness ==
    /\ HandlerDone /\ handler = [variant |-> "p1", endpoint |-> "full-audit"]
    /\ calls = <<[svc |-> "search", ok |-> TRUE], [svc |-> "details", ok |-> FALSE],
                 [svc |-> "reviews", ok |-> FALSE], [svc |-> "photos", ok |-> FALSE]>>
    /\ resp.status = 200 /\ resp.found = "true" /\ resp.daysSinceReview = 999

\* the response and the sink calls of the request, given what the lookup
\* produced and nothing else
ExpectedResp ==
    IF place.found THEN resultOf(handler, place, local) ELSE NotFoundResp(handler)
ExpectedSinks ==
    IF place.found THEN foundSinks(handler, req, cfg, ExpectedResp)
    ELSE notFoundSinks(handler, cfg)

\* C18: on a request for a score (calculate-rot, full-audit, quick-audit),
\* for every combination of the lead store, the automation webhook and the
\* team notifier succeeding or failing, the response is the one sent when
\* all sinks succeed, and every sink that is due for the request is still
\* invoked.
C18_SinkFailureIsolated ==
    HandlerDone /\ handler \in LeadHandlers /\ ~RequiredMissing
        => /\ resp = ExpectedResp
           /\ [i \in 1..Len(sinks) |-> sinks[i].sink] = ExpectedSinks

\* server.js not-found path: the lead store failed, the webhook was called
\* all the same and the response is the not-found envelope
C18_Witness ==
    /\ HandlerDone /\ handler.variant = "server" /\ ~place.found
    /\ Len(sinks) = 2
    /\ sinks[1].sink = "airtable" /\ sinks[1].state = "failed"
    /\ sinks[1].promise = "resolved"
    /\ sinks[2].sink = "zapier" /\ sinks[2].state = "ok"
    /\ resp.status = 200 /\ resp.found = "false"

\* C19: on every path that invokes sinks the response is sent without
\* waiting for a sink call: once sink calls are in flight the response has
\* been sent, whether or not they ever complete.
C19_RespondsWithoutWaiting ==
    fn = "request" /\ sinks # <<>> => resp # NoResp

\* C20: no retries: within one request no call is made to a downstream
\* service after a call to that service has failed.
C20_NoRetries ==
    [][/\ Len(calls') > Len(calls)
          => ~\E i \in 1..Len(calls) :
                 calls[i].svc = calls'[Len(calls')].svc /\ ~calls[i].ok
       /\ Len(sinks') > Len(sinks)
          => ~\E i \in 1..Len(sinks), j \in 1..Len(sinks') :
                 /\ j > Len(sinks) /\ sinks[i].sink = sinks'[j].sink
                 /\ sinks[i].state = "failed"]_vars

\* the team notifier was called for the request
SlackCalled == \E i \in 1..Len(sinks) : sinks[i].sink = "slack"

\* C21: on calculate-rot of every variant the team notifier is called for
\* a request if and only if Slack is configured, the business was found
\* and the rotScore of the request is a number at or above 60.
C21_SlackIffHotLead ==
    HandlerDone /\ handler.endpoint = "calculate-rot"
        => (SlackCalled <=> /\ cfg.slack /\ resp.found = "true"
                            /\ jsAtLeast(resp.rotScore, HotLeadThreshold))

\* C22: in calculate-rot of server.js and part_000, for every found
\* business, whatever publish times its reviews carry, the daysSinceReview
\* of the response is a non-negative integer and its rotScore is an
\* integer in 0..100.
C22_DaysAndRotInRange ==
    HandlerDone /\ handler.variant \in {"server", "p0"}
        /\ handler.endpoint = "calculate-rot" /\ resp.found = "true"
        => /\ resp.daysSinceReview # NaN /\ resp.daysSinceReview >= 0
           /\ resp.rotScore # NaN /\ resp.rotScore \in 0..MaxScore

\* C23: in server.js with Zapier and Slack configured, the automation
\* payload of a request marks the lead as hot if and only if a Slack alert
\* is sent for that request, on the found and on the not-found path.
C23_HotLeadIffSlack ==
    HandlerDone /\ handler.variant = "server" /\ cfg.zapier /\ cfg.slack
        /\ handler.endpoint = "calculate-rot"
        => \A i \in 1..Len(sinks) :
               sinks[i].sink = "zapier"
                   => (sinks[i].payload.isHotLead = "true" <=> SlackCalled)

\* C24: every Slack alert of part_001 carries the overall score and the
\* overall status computed for the request.
C24_SlackAlertDefined ==
    fn = "request" /\ handler.variant = "p1"
        => \A i \in 1..Len(sinks) :
               sinks[i].sink = "slack"
                   => /\ sinks[i].payload.overallScore # Undefined
                      /\ sinks[i].payload.overallScore = resp.score
                      /\ sinks[i].payload.overallStatus # "undefined"
                      /\ sinks[i].payload.overallStatus = resp.label

\* calls of a sink made for the request
CallsOf(sink) == Cardinality({i \in 1..Len(sinks) : sinks[i].sink = sink})

\* C27: on calculate-rot of every variant, when the business is not found
\* the lead store and the automation webhook are each called exactly once
\* when configured, with the email and business name of the request, and
\* the team notifier is not called.
C27_NotFoundLeadCaptured ==
    /\ HandlerDone /\ handler.endpoint = "calculate-rot" /\ resp.found = "false"
          => /\ CallsOf("airtable") = (IF cfg.airtable THEN 1 ELSE 0)
             /\ CallsOf("zapier") = (IF cfg.zapier THEN 1 ELSE 0)
             /\ CallsOf("slack") = 0
             /\ \A i \in 1..Len(sinks) :
                    /\ sinks[i].payload.email /\ req.email
                    /\ sinks[i].payload.businessName /\ req.businessName
    /\ fn = "request" /\ handler.endpoint = "calculate-rot" /\ ~place.found
          => /\ CallsOf("airtable") <= 1 /\ CallsOf("zapier") <= 1
             /\ CallsOf("slack") = 0

\* part_000: not found after the three queries, with both sinks called
C27_Witness ==
    /\ HandlerDone /\ handler.variant = "p0" /\ resp.found = "false"
    /\ Len(calls) = SearchQueries
    /\ cfg.airtable /\ cfg.zapier /\ cfg.slack
    /\ Len(sinks) = 2 /\ sinks[1].sink = "airtable" /\ sinks[2].sink = "zapier"
    /\ sinks[2].payload.email /\ sinks[2].payload.businessName

\* the 1..5 severity level of a label, in each of the two schemes
HealthLevel(status) ==
    CASE status = "Excellent" -> 1 [] status = "Good" -> 2 [] status = "Fair" -> 3
      [] status = "Poor" -> 4 [] status = "Critical" -> 5
RotLevel(status) ==
    CASE status = "Healthy Heartbeat" -> 1 [] status = "Early Decay" -> 2
      [] status = "Freshness Failing" -> 3 [] status = "Rot Zone" -> 4
      [] status = "Critical Decay" -> 5

\* C25: calculate-rot of part_001 assigns the same severity level as
\* calculate-rot of part_000: for every daysSinceReview >= 0 the level of
\* getStatusFromScore(100 - rotScore) equals the level of
\* getStatus(rotScore).
C25_SameSeverity ==
    RotDone
        => \A i \in 1..2 :
               <<days, days2>>[i] >= 0
                   => HealthLevel(getStatusFromScore(100 - rotP1[i]).status)
                          = RotLevel(getStatus(rotP0[i]).status)

\* the profile issues of the snapshot, one check after the other: name,
\* phone, website, hours, description, categories
ProfileChecks ==
    <<[ok |-> placeData.title, issue |-> "Missing business name"],
      [ok |-> placeData.phone, issue |-> "Missing phone number"],
      [ok |-> placeData.website, issue |-> "Missing website"],
      [ok |-> placeData.hours \/ placeData.operating_hours,
       issue |-> "Missing business hours"],
      [ok |-> placeData.description > 0, issue |-> "Missing business description"],
      [ok |-> placeData.types >= 1, issue |-> "Missing business categories"]>>
failedCheck(c) == ~c.ok
IssueOrder ==
    LET failed == SelectSeq(ProfileChecks, failedCheck)
    IN  [i \in 1..Len(failed) |-> failed[i].issue]
            \o photoScore.issues \o responseScore.issues

\* C26: in full-audit, criticalIssues is the first min(5, n) entries of
\* the profile issues in check order followed by the photo issues and the
\* response issues; topRecommendations has at most 5 entries, the first
\* of them the stale-review recommendation whenever daysSinceReview > 30.
C26_TopIssues ==
    AuditDone
        => /\ Len(criticalIssues) = Min(5, Len(IssueOrder))
           /\ \A i \in 1..Len(criticalIssues) : criticalIssues[i] = IssueOrder[i]
           /\ Len(topRecommendations) <= 5
           /\ days > 30
                 => /\ Len(topRecommendations) >= 1
                    /\ topRecommendations[1]
                           = "Get a new review ASAP - it's been "
                                 \o ToString(days) \o " days!"

\* a snapshot with eight issues, of which the photo and response issues
\* are cut off, and a stale newest review
C26_Witness ==
    /\ AuditDone /\ placeData = EmptyPlace /\ photoCount = 0 /\ reviews = <<>>
    /\ days = Sentinel
    /\ Len(criticalIssues) = 5 /\ criticalIssues[5] = "Missing business description"
    /\ Len(topRecommendations) = 5

====
